---- MODULE Spec2Model ----
(***************************************************************************)
(* Model of the sports card opportunity detection engine:                  *)
(*   src/src/price_analyzer.py  (PriceAnalyzer)                            *)
(*   src/dashboard.py           (search logic, session state)              *)
(*                                                                         *)
(* Every public operation is one action.  An action draws the operation's  *)
(* inputs from bounded sets, runs the whole operation and records the call *)
(* (operation, arguments, returned value) in `call`; Return then goes back *)
(* to the idle state.  Prices, averages and percentages are exact          *)
(* rationals (the code uses binary floating point; rounding of prices is   *)
(* not modelled).  The match score, whose comparison with 0.3 is decided   *)
(* by a rounding error, keeps the IEEE-754 rounding of its additions.      *)
(***************************************************************************)
EXTENDS Integers, Sequences, FiniteSets, TLC

VARIABLES
    analyzer,   \* PriceAnalyzer instance: discount_threshold, min_sold_samples, recency_weight
    pc,         \* "idle" | "returned", or the position inside a retried request
    call,       \* the last call: [op, args, raised, ret]
    session,    \* st.session_state: opportunities, last_search, search_history
    now,        \* datetime.now(), counted in searches
    wrapper     \* the retry wrapper of a client's request method, and time.time()

vars == <<analyzer, pc, call, session, now, wrapper>>

(***************************************************************************)
(* Bounds of the model.                                                    *)
(***************************************************************************)
MaxSold == 3        \* longest list of sold records
MaxAgeTicks == 3    \* oldest end_time, in ticks before now
MaxActive == 2      \* longest list of active listings
MaxQuotes == 4      \* longest list of sold records priced in doubles
MaxRequests == 4    \* most HTTP requests of one client
MaxClock == 3       \* latest second at which time still passes on its own

\* An optional value (Optional[...] of Python) is a sequence of at most one
\* element: None is the empty one.
None == <<>>
Some(x) == <<x>>
Get(o) == o[1]

(***************************************************************************)
(* Exact rational arithmetic: [n |-> numerator, d |-> denominator > 0],    *)
(* always in lowest terms, so that equal numbers are equal records.        *)
(***************************************************************************)
Abs(x) == IF x < 0 THEN -x ELSE x

RECURSIVE Gcd(_, _)
Gcd(a, b) == IF b = 0 THEN a ELSE Gcd(b, a % b)

Rat(n, d) ==
    LET s == IF d < 0 THEN -1 ELSE 1
        g == Gcd(Abs(n), Abs(d))
    IN  [n |-> (s * n) \div g, d |-> (s * d) \div g]

R(i) == [n |-> i, d |-> 1]
RAdd(a, b) == Rat(a.n * b.d + b.n * a.d, a.d * b.d)
RSub(a, b) == Rat(a.n * b.d - b.n * a.d, a.d * b.d)
RMul(a, b) ==
    LET x == Rat(a.n, b.d)
        y == Rat(b.n, a.d)
    IN  Rat(x.n * y.n, x.d * y.d)
\* b # 0
RDiv(a, b) == RMul(a, Rat(b.d, b.n))

\* a/b < c/d for b, d > 0, by the continued fractions of both sides (no
\* cross product, which may exceed 32-bit integers).
RECURSIVE FracLess(_, _, _, _)
FracLess(a, b, c, d) ==
    LET q1 == a \div b
        q2 == c \div d
        r1 == a % b
        r2 == c % d
    IN  IF q1 # q2 THEN q1 < q2
        ELSE IF r2 = 0 THEN FALSE
        ELSE IF r1 = 0 THEN TRUE
        ELSE FracLess(d, r2, b, r1)

RLt(a, b) == FracLess(a.n, a.d, b.n, b.d)
RLe(a, b) == ~RLt(b, a)
RGt(a, b) == RLt(b, a)
RGe(a, b) == ~RLt(a, b)

(***************************************************************************)
(* Sequences.                                                              *)
(***************************************************************************)
\* The subsequence of s at the positions of keep (a list
\* comprehension with a condition).
RECURSIVE SelectIdx(_, _, _)
SelectIdx(s, keep, i) ==
    IF i > Len(s) THEN <<>>
    ELSE IF i \in keep THEN <<s[i]>> \o SelectIdx(s, keep, i + 1)
    ELSE SelectIdx(s, keep, i + 1)

RECURSIVE SumSeq(_)
SumSeq(s) == IF s = <<>> THEN 0 ELSE Head(s) + SumSeq(Tail(s))

\* All sequences over S of length lo..hi.
SeqsOf(S, lo, hi) == UNION {[1..k -> S] : k \in lo..hi}

\* s sorted ascending (insertion sort on integers).
RECURSIVE InsertSorted(_, _)
InsertSorted(x, s) ==
    IF s = <<>> THEN <<x>>
    ELSE IF x <= Head(s) THEN <<x>> \o s
    ELSE <<Head(s)>> \o InsertSorted(x, Tail(s))

RECURSIVE SortAsc(_)
SortAsc(s) == IF s = <<>> THEN <<>> ELSE InsertSorted(Head(s), SortAsc(Tail(s)))

(***************************************************************************)
(* Strings are sequences of characters.                                    *)
(***************************************************************************)
UpperCase == <<"A","B","C","D","E","F","G","H","I","J","K","L","M",
               "N","O","P","Q","R","S","T","U","V","W","X","Y","Z">>
LowerCase == <<"a","b","c","d","e","f","g","h","i","j","k","l","m",
               "n","o","p","q","r","s","t","u","v","w","x","y","z">>

\* str.lower()
LowerChar(c) ==
    IF \E i \in 1..26 : UpperCase[i] = c
    THEN LowerCase[CHOOSE i \in 1..26 : UpperCase[i] = c]
    ELSE c
Lower(s) == [i \in 1..Len(s) |-> LowerChar(s[i])]

\* `sub in s`
Contains(s, sub) ==
    \E i \in 1..(Len(s) - Len(sub) + 1) : SubSeq(s, i, i + Len(sub) - 1) = sub

\* str.split(): the maximal runs of non-blank characters
RECURSIVE SplitFrom(_, _, _)
SplitFrom(s, i, word) ==
    IF i > Len(s) THEN (IF word = <<>> THEN <<>> ELSE <<word>>)
    ELSE IF s[i] = " "
         THEN (IF word = <<>> THEN <<>> ELSE <<word>>) \o SplitFrom(s, i + 1, <<>>)
         ELSE SplitFrom(s, i + 1, Append(word, s[i]))
Split(s) == SplitFrom(s, 1, <<>>)

\* str.strip()
RECURSIVE LStrip(_)
LStrip(s) == IF s # <<>> /\ Head(s) = " " THEN LStrip(Tail(s)) ELSE s
RECURSIVE RStrip(_)
RStrip(s) ==
    IF s # <<>> /\ s[Len(s)] = " " THEN RStrip(SubSeq(s, 1, Len(s) - 1)) ELSE s
Strip(s) == RStrip(LStrip(s))

\* ' '.join(parts)
RECURSIVE Join(_)
Join(parts) ==
    IF parts = <<>> THEN <<>>
    ELSE IF Len(parts) = 1 THEN parts[1]
    ELSE parts[1] \o <<" ">> \o Join(Tail(parts))

\* card_terms of _calculate_match_score
card_terms ==
    <<<<"c", "a", "r", "d">>,
      <<"r", "o", "o", "k", "i", "e">>,
      <<"r", "c">>,
      <<"p", "r", "i", "z", "m">>,
      <<"c", "h", "r", "o", "m", "e">>,
      <<"t", "o", "p", "p", "s">>,
      <<"p", "a", "n", "i", "n", "i">>,
      <<"f", "l", "e", "e", "r">>,
      <<"p", "s", "a">>,
      <<"b", "g", "s">>>>

\* non_card_keywords of _is_non_sports_card
non_card_keywords ==
    <<<<"f", "u", "n", "k", "o">>,
      <<"p", "o", "p">>,
      <<"v", "i", "n", "y", "l">>,
      <<"f", "i", "g", "u", "r", "e">>,
      <<"m", "a", "g", "i", "c", " ", "t", "h", "e", " ", "g", "a", "t", "h", "e", "r", "i", "n", "g">>,
      <<"m", "t", "g">>,
      <<"m", "a", "g", "i", "c", " ", "c", "a", "r", "d">>,
      <<"p", "o", "k", "e", "m", "o", "n">>,
      <<"y", "u", "g", "i", "o", "h">>,
      <<"y", "u", "-", "g", "i", "-", "o", "h">>,
      <<"v", "i", "d", "e", "o", " ", "g", "a", "m", "e">>,
      <<"x", "b", "o", "x">>,
      <<"p", "l", "a", "y", "s", "t", "a", "t", "i", "o", "n">>,
      <<"n", "i", "n", "t", "e", "n", "d", "o">>,
      <<"s", "w", "i", "t", "c", "h">>,
      <<"c", "o", "m", "i", "c", " ", "b", "o", "o", "k">>,
      <<"g", "r", "a", "p", "h", "i", "c", " ", "n", "o", "v", "e", "l">>,
      <<"p", "a", "p", "e", "r", "b", "a", "c", "k">>,
      <<"j", "e", "r", "s", "e", "y">>,
      <<"a", "u", "t", "o", "g", "r", "a", "p", "h", " ", "p", "h", "o", "t", "o">>,
      <<"s", "i", "g", "n", "e", "d", " ", "p", "h", "o", "t", "o">>,
      <<"b", "o", "b", "b", "l", "e", "h", "e", "a", "d">>,
      <<"p", "l", "u", "s", "h">>,
      <<"t", "o", "y">>>>

\* The strings of the catalog cards and of the listing titles.
Str_michael_jordan ==
    <<"M", "i", "c", "h", "a", "e", "l", " ", "J", "o", "r", "d", "a", "n">>
Str_kobe_bryant ==
    <<"K", "o", "b", "e", " ", "B", "r", "y", "a", "n", "t">>
Str_fleer ==
    <<"F", "l", "e", "e", "r">>
Str_topps_chrome ==
    <<"T", "o", "p", "p", "s", " ", "C", "h", "r", "o", "m", "e">>
Str_upper_deck ==
    <<"U", "p", "p", "e", "r", " ", "D", "e", "c", "k">>
Str_1986 ==
    <<"1", "9", "8", "6">>
Str_1996 ==
    <<"1", "9", "9", "6">>
Title_jordan_fleer ==
    <<"M", "i", "c", "h", "a", "e", "l", " ", "J", "o", "r", "d", "a", "n", " ", "1", "9", "8", "6", " ", "F", "l", "e", "e", "r", " ", "R", "C">>
Title_year_card ==
    <<"1", "9", "8", "6", " ", "C", "a", "r", "d", " ", "R", "C">>
Title_upper_deck ==
    <<"U", "p", "p", "e", "r", " ", "D", "e", "c", "k", " ", "L", "o", "t">>
Title_funko ==
    <<"F", "u", "n", "k", "o", " ", "P", "o", "p", " ", "M", "i", "c", "h", "a", "e", "l", " ", "J", "o", "r", "d", "a", "n">>
Title_kobe ==
    <<"K", "o", "b", "e", " ", "B", "r", "y", "a", "n", "t", " ", "T", "o", "p", "p", "s">>
Title_jordan_graded ==
    <<"M", "i", "c", "h", "a", "e", "l", " ", "J", "o", "r", "d", "a", "n", " ", "1", "9", "8", "6", " ", "F", "l", "e", "e", "r", " ", "C", "a", "r", "d", " ", "R", "C", " ", "P", "S", "A", " ", "B", "G", "S">>
Title_many_terms ==
    <<"T", "o", "p", "p", "s", " ", "C", "h", "r", "o", "m", "e", " ", "R", "o", "o", "k", "i", "e", " ", "C", "a", "r", "d", " ", "R", "C", " ", "P", "S", "A">>

(***************************************************************************)
(* Time.  now and every end_time are wall-clock instants in ticks of half  *)
(* a day; an end_time is recorded by its age in ticks, now - end_time.     *)
(* timedelta.days is the floor of the difference in whole days.            *)
(***************************************************************************)
TicksPerDay == 2
Days(age_ticks) == age_ticks \div TicksPerDay

\* A sold record's end_time: None, or a datetime [age, aware].  aware says
\* the datetime carries a tzinfo; age is the age of its wall-clock fields.
EndTimes ==
    {None} \cup {Some(t) : t \in [age : 0..MaxAgeTicks, aware : {FALSE}]}
           \cup {Some(t) : t \in [age : {MaxAgeTicks}, aware : {TRUE}]}

SoldPrices == {0, 100, 200}
SoldListing == [price : SoldPrices, end_time : EndTimes]

(***************************************************************************)
(* PriceAnalyzer.__init__: the configurations of the analyzer.             *)
(* recency_weight is carried as the rational decay base it stands for:     *)
(* exp(-recency_weight * days_ago / 30) = decay ^ days_ago, where          *)
(* decay = exp(-recency_weight / 30) is 1 for recency_weight = 0 and lies  *)
(* in (0, 1) for recency_weight > 0.                                       *)
(***************************************************************************)
RecencyWeights == {[n |-> 1, d |-> 1], [n |-> 9, d |-> 10], [n |-> 1, d |-> 2]}
Thresholds == {20}
MinSoldSamples == {2, 3}
\* The defaults of __init__: discount_threshold 20.0, min_sold_samples 5.
DefaultMinSoldSamples == 5

PriceAnalyzer ==
    [discount_threshold : Thresholds,
     min_sold_samples : MinSoldSamples,
     recency_weight : RecencyWeights]

DefaultAnalyzers ==
    [discount_threshold : {20},
     min_sold_samples : {DefaultMinSoldSamples},
     recency_weight : {[n |-> 1, d |-> 2]}]

RECURSIVE Pow(_, _)
Pow(b, e) == IF e = 0 THEN 1 ELSE b * Pow(b, e - 1)

\* np.exp(-recency_weight * days_ago / 30), scaled by the common factor
\* decay.d ^ MaxDays so that every weight is an integer (the scale cancels
\* in the quotient of the weighted average).
MaxDays == Days(MaxAgeTicks)
Weight_no_decay(rw, days_ago) == 1

Weight(rw, days_ago) == Pow(rw.n, days_ago) * Pow(rw.d, MaxDays - days_ago)

(***************************************************************************)
(* PriceAnalyzer._calculate_weighted_average                               *)
(***************************************************************************)
_calculate_weighted_average(self, sold_listings) ==
    LET listings_with_dates ==
            SelectIdx(sold_listings,
                      {i \in 1..Len(sold_listings) :
                          sold_listings[i].end_time # None
                          /\ sold_listings[i].price > 0}, 1)
        \* end_time.replace(tzinfo=None) keeps the wall-clock fields
        days_ago(l) == Days(Get(l.end_time).age)
        weights == [i \in 1..Len(listings_with_dates) |->
                        Weight(self.recency_weight, days_ago(listings_with_dates[i]))]
        prices == [i \in 1..Len(listings_with_dates) |-> listings_with_dates[i].price]
        products == [i \in 1..Len(weights) |-> prices[i] * weights[i]]
    IN  IF listings_with_dates = <<>> THEN None
        ELSE Some(Rat(SumSeq(products), SumSeq(weights)))

(***************************************************************************)
(* PriceAnalyzer.calculate_market_value                                    *)
(***************************************************************************)
\* np.median of a non-empty list
Median(prices) ==
    LET s == SortAsc(prices)
        n == Len(s)
    IN  IF n % 2 = 1 THEN R(s[(n + 1) \div 2])
        ELSE Rat(s[n \div 2] + s[n \div 2 + 1], 2)

\* np.std(prices) ^ 2, the population variance (the square root is not
\* rational; it is 0 exactly when the variance is)
Variance(prices) ==
    LET n == Len(prices)
        sq == [i \in 1..n |-> prices[i] * prices[i]]
    IN  Rat(n * SumSeq(sq) - SumSeq(prices) * SumSeq(prices), n * n)

\* `weighted_avg if weighted_avg else avg_price`: None and 0.0 are falsy.
MarketValueOf_avg_only(weighted_avg, avg_price) == avg_price

MarketValueOf(weighted_avg, avg_price) ==
    IF weighted_avg # None /\ Get(weighted_avg).n # 0
    THEN Get(weighted_avg) ELSE avg_price

\* The estimate without the test of the number of sold records.
calculate_market_value_no_minimum(self, sold_listings) ==
    IF sold_listings = <<>> THEN None
    ELSE
    LET prices_idx == SelectIdx(sold_listings,
                                {i \in 1..Len(sold_listings) : sold_listings[i].price > 0}, 1)
        prices == [i \in 1..Len(prices_idx) |-> prices_idx[i].price]
    IN  IF prices = <<>> THEN None
        ELSE
        LET avg_price == Rat(SumSeq(prices), Len(prices))
            sorted == SortAsc(prices)
            weighted_avg == _calculate_weighted_average(self, sold_listings)
            market_value == MarketValueOf(weighted_avg, avg_price)
        IN  Some(
            [market_value |-> market_value,
             average |-> avg_price,
             median |-> Median(prices),
             std_dev_sq |-> Variance(prices),
             min |-> R(sorted[1]),
             max |-> R(sorted[Len(sorted)]),
             sample_size |-> Len(prices),
             weighted_average |-> weighted_avg])

\* The estimate with the market value reported as the average.
calculate_market_value_weighted_stats(self, sold_listings) ==
    IF sold_listings = <<>> \/ Len(sold_listings) < self.min_sold_samples THEN None
    ELSE
    LET prices_idx == SelectIdx(sold_listings,
                                {i \in 1..Len(sold_listings) : sold_listings[i].price > 0}, 1)
        prices == [i \in 1..Len(prices_idx) |-> prices_idx[i].price]
    IN  IF prices = <<>> THEN None
        ELSE
        LET avg_price == Rat(SumSeq(prices), Len(prices))
            sorted == SortAsc(prices)
            weighted_avg == _calculate_weighted_average(self, sold_listings)
            market_value == MarketValueOf(weighted_avg, avg_price)
        IN  Some(
            [market_value |-> market_value,
             average |-> market_value,
             median |-> Median(prices),
             std_dev_sq |-> Variance(prices),
             min |-> R(sorted[1]),
             max |-> R(sorted[Len(sorted)]),
             sample_size |-> Len(prices),
             weighted_average |-> weighted_avg])

calculate_market_value(self, sold_listings) ==
    IF sold_listings = <<>> \/ Len(sold_listings) < self.min_sold_samples THEN None
    ELSE
    LET prices_idx == SelectIdx(sold_listings,
                                {i \in 1..Len(sold_listings) : sold_listings[i].price > 0}, 1)
        prices == [i \in 1..Len(prices_idx) |-> prices_idx[i].price]
    IN  IF prices = <<>> THEN None
        ELSE
        LET avg_price == Rat(SumSeq(prices), Len(prices))
            sorted == SortAsc(prices)
            weighted_avg == _calculate_weighted_average(self, sold_listings)
            market_value == MarketValueOf(weighted_avg, avg_price)
        IN  Some(
            [market_value |-> market_value,
             average |-> avg_price,
             median |-> Median(prices),
             std_dev_sq |-> Variance(prices),
             min |-> R(sorted[1]),
             max |-> R(sorted[Len(sorted)]),
             sample_size |-> Len(prices),
             weighted_average |-> weighted_avg])

(***************************************************************************)
(* Binary64 arithmetic.  price_analyzer.py 60-65 computes the statistics   *)
(* with numpy on IEEE 754 doubles.  A double is [m, e] with value m * 2^e  *)
(* and m a natural number of exactly MantissaBits bits, kept as a          *)
(* little-endian sequence of limbs below LimbBase (no leading zero limb).  *)
(***************************************************************************)
RECURSIVE BitLen(_)
BitLen(n) == IF n = 0 THEN 0 ELSE 1 + BitLen(n \div 2)

LimbBits == 13

LimbBase == 2^LimbBits

\* the significand of a double has 53 bits
MantissaBits == 53

RECURSIVE BNFromInt(_)
BNFromInt(n) == IF n = 0 THEN <<>> ELSE <<n % LimbBase>> \o BNFromInt(n \div LimbBase)

RECURSIVE BNNorm(_)
BNNorm(a) ==
    IF a = <<>> THEN <<>>
    ELSE IF a[Len(a)] = 0 THEN BNNorm(SubSeq(a, 1, Len(a) - 1))
    ELSE a

BNLimb(a, i) == IF i <= Len(a) THEN a[i] ELSE 0

RECURSIVE BNAddFrom(_, _, _, _)
BNAddFrom(a, b, i, carry) ==
    IF i > Len(a) /\ i > Len(b)
    THEN IF carry = 0 THEN <<>> ELSE <<carry>>
    ELSE LET t == BNLimb(a, i) + BNLimb(b, i) + carry
         IN  <<t % LimbBase>> \o BNAddFrom(a, b, i + 1, t \div LimbBase)

BNAdd(a, b) == BNAddFrom(a, b, 1, 0)

RECURSIVE BNMulFrom(_, _, _, _)
BNMulFrom(a, k, i, carry) ==
    IF i > Len(a)
    THEN BNFromInt(carry)
    ELSE LET t == a[i] * k + carry
         IN  <<t % LimbBase>> \o BNMulFrom(a, k, i + 1, t \div LimbBase)

\* a * k for a small factor k
BNMulSmall(a, k) == BNNorm(BNMulFrom(a, k, 1, 0))

\* a * 2^bits: whole limbs of zeros below, the rest by multiplication
BNShl(a, bits) ==
    IF a = <<>> THEN <<>>
    ELSE [i \in 1..(bits \div LimbBits) |-> 0] \o BNMulSmall(a, 2^(bits % LimbBits))

\* the remainder of the limbs i.. of a by the small divisor k
RECURSIVE BNRemFrom(_, _, _)
BNRemFrom(a, k, i) ==
    IF i > Len(a) THEN 0 ELSE (BNRemFrom(a, k, i + 1) * LimbBase + a[i]) % k

BNDivSmall(a, k) ==
    [q |-> BNNorm([i \in 1..Len(a) |->
                      (BNRemFrom(a, k, i + 1) * LimbBase + a[i]) \div k]),
     r |-> BNRemFrom(a, k, 1)]

BNBitLen(a) == IF a = <<>> THEN 0 ELSE LimbBits * (Len(a) - 1) + BitLen(a[Len(a)])

BNIsOdd(a) == a # <<>> /\ a[1] % 2 = 1

RECURSIVE BNLessFrom(_, _, _)
BNLessFrom(a, b, i) ==
    IF i = 0 THEN FALSE
    ELSE IF a[i] # b[i] THEN a[i] < b[i]
    ELSE BNLessFrom(a, b, i - 1)

BNLess(a, b) ==
    IF Len(a) # Len(b) THEN Len(a) < Len(b) ELSE BNLessFrom(a, b, Len(a))

\* a \div 2^bits, and whether a non-zero remainder was dropped
BNShr(a, bits) ==
    LET limbs == bits \div LimbBits
        d     == BNDivSmall(SubSeq(a, limbs + 1, Len(a)), 2^(bits % LimbBits))
    IN  [q |-> d.q,
         inexact |-> d.r # 0 \/ \E i \in 1..Len(a) : i <= limbs /\ a[i] # 0]

\* drop the low bits of n (bits >= 1), remembering the last bit dropped
\* (guard) and whether anything below it was non-zero (sticky)
DropBits(n, bits, sticky) ==
    LET d == BNShr(n, bits - 1)
    IN  [n |-> BNDivSmall(d.q, 2).q, guard |-> BNIsOdd(d.q), sticky |-> sticky \/ d.inexact]

\* n * 2^e (plus a non-zero fraction below the last bit when sticky) rounded
\* to the nearest double, ties to even
RoundToDouble(n, e, sticky) ==
    LET len == BNBitLen(n)
    IN  IF len <= MantissaBits
        THEN [m |-> BNShl(n, MantissaBits - len), e |-> e - (MantissaBits - len)]
        ELSE LET d  == DropBits(n, len - MantissaBits, sticky)
                 up == d.guard /\ (d.sticky \/ BNIsOdd(d.n))
                 m  == IF up THEN BNAdd(d.n, <<1>>) ELSE d.n
             IN  IF BNBitLen(m) > MantissaBits
                 THEN [m |-> BNDivSmall(m, 2).q, e |-> e + (len - MantissaBits) + 1]
                 ELSE [m |-> m, e |-> e + (len - MantissaBits)]

\* float("d.cc"): the double nearest to cents / 100
DFromCents(cents) ==
    LET d == BNDivSmall(BNShl(BNFromInt(cents), 60), 100)
    IN  RoundToDouble(d.q, -60, d.r # 0)

\* a + b for positive doubles
DAdd(a, b) ==
    LET e == IF a.e <= b.e THEN a.e ELSE b.e
    IN  RoundToDouble(BNAdd(BNShl(a.m, a.e - e), BNShl(b.m, b.e - e)), e, FALSE)

\* a / n for a small positive integer n
DDivInt(a, n) ==
    LET d == BNDivSmall(BNShl(a.m, 8), n)
    IN  RoundToDouble(d.q, a.e - 8, d.r # 0)

DLess(a, b) == a.e < b.e \/ (a.e = b.e /\ BNLess(a.m, b.m))

\* numpy adds fewer than eight values one after the other, left to right
RECURSIVE DSum(_)
DSum(xs) ==
    IF Len(xs) = 1 THEN xs[1]
    ELSE DAdd(DSum(SubSeq(xs, 1, Len(xs) - 1)), xs[Len(xs)])

np_mean(xs) == DDivInt(DSum(xs), Len(xs))

RECURSIVE DInsertSorted(_, _)
DInsertSorted(x, s) ==
    IF s = <<>> THEN <<x>>
    ELSE IF ~DLess(Head(s), x) THEN <<x>> \o s
    ELSE <<Head(s)>> \o DInsertSorted(x, Tail(s))

RECURSIVE DSort(_)
DSort(s) == IF s = <<>> THEN <<>> ELSE DInsertSorted(Head(s), DSort(Tail(s)))

\* np.median: the middle value, or the mean of the two middle values
np_median(xs) ==
    LET sorted == DSort(xs)
        n      == Len(xs)
    IN  IF n % 2 = 1 THEN sorted[(n + 1) \div 2]
        ELSE DDivInt(DAdd(sorted[n \div 2], sorted[n \div 2 + 1]), 2)

\* The prices of sold records as the client parses them: float("1.00"),
\* float("2.95"), float("19.99").
QuoteCents == {100, 295, 1999}

Quotes == {[price |-> DFromCents(cents), end_time |-> None] : cents \in QuoteCents}

\* calculate_market_value on doubles, for records that carry a positive
\* price and no end_time: _calculate_weighted_average finds no dated record
\* and returns None, so the market value is the average.  np.std is the
\* square root of the mean of the squares of the deviations from the mean;
\* it is 0 exactly when no price deviates from the mean.
calculate_market_value_float64_median_value(self, sold_listings) ==
    IF sold_listings = <<>> \/ Len(sold_listings) < self.min_sold_samples THEN None
    ELSE
    LET prices == [i \in 1..Len(sold_listings) |-> sold_listings[i].price]
        sorted == DSort(prices)
    IN  Some(
        [market_value |-> np_median(prices),
         average |-> np_mean(prices),
         median |-> np_median(prices),
         std_dev_is_zero |-> \A i \in 1..Len(prices) : prices[i] = np_mean(prices),
         min |-> sorted[1],
         max |-> sorted[Len(sorted)],
         sample_size |-> Len(prices),
         weighted_average |-> None])

calculate_market_value_float64(self, sold_listings) ==
    IF sold_listings = <<>> \/ Len(sold_listings) < self.min_sold_samples THEN None
    ELSE
    LET prices == [i \in 1..Len(sold_listings) |-> sold_listings[i].price]
        sorted == DSort(prices)
    IN  Some(
        [market_value |-> np_mean(prices),
         average |-> np_mean(prices),
         median |-> np_median(prices),
         std_dev_is_zero |-> \A i \in 1..Len(prices) : prices[i] = np_mean(prices),
         min |-> sorted[1],
         max |-> sorted[Len(sorted)],
         sample_size |-> Len(prices),
         weighted_average |-> None])

(***************************************************************************)
(* The opportunity detector: the computations shared by the producers.     *)
(***************************************************************************)
\* ((market_value - price) / market_value) * 100, market_value # 0
DiscountPct(market_value, price) ==
    RMul(RDiv(RSub(market_value, price), market_value), R(100))

\* `discount_pct >= self.discount_threshold`
MeetsThreshold_always(self, discount_pct) == TRUE

MeetsThreshold(self, discount_pct) ==
    RGe(discount_pct, R(self.discount_threshold))

\* (potential_profit / price) * 100, price # 0
ProfitMargin_over_value(potential_profit, price) ==
    RMul(RDiv(potential_profit, RAdd(potential_profit, price)), R(100))

ProfitMargin(potential_profit, price) ==
    RMul(RDiv(potential_profit, price), R(100))

\* sort_values('discount_pct', ascending=False) and
\* list.sort(key=discount_pct, reverse=True): descending, rows of equal
\* discount keep their order.
RECURSIVE InsertByDiscount(_, _)
InsertByDiscount(x, s) ==
    IF s = <<>> THEN <<x>>
    ELSE IF RGe(Head(s).discount_pct, x.discount_pct)
         THEN <<Head(s)>> \o InsertByDiscount(x, Tail(s))
         ELSE <<x>> \o s

\* The rows left in the order of the loop.
SortByDiscount_unsorted(s) == s

RECURSIVE SortByDiscount(_)
SortByDiscount(s) ==
    IF s = <<>> THEN <<>>
    ELSE InsertByDiscount(s[Len(s)], SortByDiscount(SubSeq(s, 1, Len(s) - 1)))

(***************************************************************************)
(* PriceAnalyzer.find_opportunities                                        *)
(* An active listing is [title, price]; url, image_url, condition,         *)
(* seller_name and listing_type are copied to the row like title.          *)
(* The returned DataFrame is the sequence of its rows.                     *)
(***************************************************************************)
\* `if listing['price'] <= 0: continue`
SkipActive_zero_only(listing) == listing.price = 0

SkipActive(listing) == listing.price <= 0

\* The body of find_opportunities after `market_stats = ...`
CompareWithMarket(self, active_listings, market_stats) ==
    IF market_stats = None THEN <<>>
    ELSE
        LET stats == Get(market_stats)
            market_value == stats.market_value
            discount_pct(l) == DiscountPct(market_value, R(l.price))
            admitted ==
                SelectIdx(active_listings,
                          {i \in 1..Len(active_listings) :
                              /\ ~SkipActive(active_listings[i])
                              /\ MeetsThreshold(self, discount_pct(active_listings[i]))},
                          1)
            row(l) ==
                LET potential_profit == RSub(market_value, R(l.price))
                IN  [title |-> l.title,
                     active_price |-> R(l.price),
                     market_value |-> market_value,
                     avg_sold_price |-> stats.average,
                     median_sold_price |-> stats.median,
                     discount_pct |-> discount_pct(l),
                     potential_profit |-> potential_profit,
                     profit_margin |-> ProfitMargin(potential_profit, R(l.price)),
                     sold_comps |-> stats.sample_size,
                     price_std_dev_sq |-> stats.std_dev_sq]
            opportunities == [i \in 1..Len(admitted) |-> row(admitted[i])]
        IN  SortByDiscount(opportunities)

find_opportunities(self, active_listings, sold_listings) ==
    CompareWithMarket(self, active_listings,
                      calculate_market_value(self, sold_listings))

(***************************************************************************)
(* Catalog cards (SportsCardProClient._parse_card).  A card is             *)
(* [card_id, title, player, set, year, market_value, price]; year is a     *)
(* string, or the integer the API sent (year_is_str = FALSE), which has no *)
(* lower().                                                                *)
(***************************************************************************)
\* SportsCardProClient._build_title, for a card with a year, a set and a
\* player at most
_build_title(player, card_set, year) ==
    LET part(x) == IF x # <<>> THEN <<x>> ELSE <<>>
        parts == part(year) \o part(card_set) \o part(player)
    IN  IF parts # <<>> THEN Join(parts)
        ELSE <<"U","n","k","n","o","w","n"," ","C","a","r","d">>

Card(card_id, player, card_set, year, year_is_str, market_value, price) ==
    [card_id |-> card_id, title |-> _build_title(player, card_set, year),
     player |-> player, set |-> card_set, year |-> year,
     year_is_str |-> year_is_str, market_value |-> market_value, price |-> price]

\* client.get_market_value(card_id): None on a failed request, else the
\* statistics of the product endpoint.
MarketStatsReplies ==
    {None, Some([average |-> 95, median |-> 90, sample_size |-> 7, std_dev |-> 3])}

(***************************************************************************)
(* The inputs of the detector and of the matcher.                          *)
(***************************************************************************)
MaxPairs == 4    \* (listing, card) pairs scored by one analyze_with_scraping
MaxCards == 2       \* longest reply of search_cards
MaxListings == 2    \* longest reply of search_listings

ActivePrices == {-10, 0, 75, 90}
ActiveListing == [title : {<<"x">>}, price : ActivePrices]

\* Five sold records without timestamps, and the lists made of them by
\* leaving records out or by zeroing prices.
SamplePrices == <<90, 95, 100, 105, 110>>
SampleSold == [i \in 1..Len(SamplePrices) |-> [price |-> SamplePrices[i], end_time |-> None]]
SampleSolds ==
    {SelectIdx(SampleSold, keep, 1) : keep \in SUBSET (1..Len(SampleSold))}
    \cup {[i \in 1..Len(SampleSold) |->
              [price |-> IF i \in zero THEN 0 ELSE SamplePrices[i], end_time |-> None]] :
           zero \in SUBSET (1..Len(SampleSold))}

\* The sold records of the calls of find_opportunities.
DetectorSold ==
    {[price |-> 0, end_time |-> None],
     [price |-> 100, end_time |-> None],
     [price |-> 200, end_time |-> None],
     [price |-> 200, end_time |-> Some([age |-> 0, aware |-> FALSE])],
     [price |-> 100, end_time |-> Some([age |-> MaxAgeTicks, aware |-> TRUE])]}

Id1 == <<"1">>
Id2 == <<"2">>
Id3 == <<"3">>

\* The cards of the replies of search_cards to _analyze_sportscardpro.
ScpCards ==
    {Card(Id1, Str_michael_jordan, Str_fleer, Str_1986, TRUE, 100, 50),
     Card(Id1, Str_michael_jordan, Str_fleer, Str_1986, TRUE, 100, 90),
     Card(Id1, Str_michael_jordan, Str_fleer, Str_1986, TRUE, 100, 0),
     Card(Id1, Str_michael_jordan, Str_fleer, Str_1986, TRUE, 0, 50),
     Card(Id1, Str_michael_jordan, Str_fleer, Str_1986, TRUE, -10, 50),
     Card(<<>>, <<>>, Str_upper_deck, <<>>, TRUE, 200, 50)}

\* The cards of the replies of search_cards to analyze_with_scraping.
MatchCards ==
    {Card(Id1, Str_michael_jordan, Str_fleer, Str_1986, TRUE, 100, 50),
     Card(Id1, Str_michael_jordan, Str_fleer, Str_1986, TRUE, 0, 50),
     Card(Id1, Str_michael_jordan, Str_fleer, Str_1986, TRUE, -10, 50),
     Card(Id2, Str_kobe_bryant, Str_topps_chrome, Str_1996, TRUE, 200, 50),
     Card(<<>>, <<>>, Str_upper_deck, <<>>, TRUE, 100, 50),
     Card(Id3, Str_michael_jordan, Str_fleer, Str_1986, FALSE, 100, 50)}

\* eBayScraper._parse_listing: the listing dictionary
Listing_price_only(title, price, shipping_cost) ==
    [title |-> title, price |-> price, shipping_cost |-> shipping_cost,
     total_cost |-> price]

Listing(title, price, shipping_cost) ==
    [title |-> title, price |-> price, shipping_cost |-> shipping_cost,
     total_cost |-> price + shipping_cost]

\* The listings of the replies of search_listings.
Listings ==
    {Listing(Title_jordan_fleer, 50, 0),
     Listing(Title_jordan_fleer, 85, 5),
     Listing(Title_jordan_fleer, -5, 0),
     Listing(Title_jordan_fleer, 0, 0),
     Listing(Title_year_card, 50, 0),
     Listing(Title_upper_deck, 50, 0),
     Listing(Title_funko, 50, 0),
     Listing(Title_kobe, 45, 5)}

Titles ==
    {Title_jordan_fleer, Title_year_card, Title_upper_deck, Title_funko,
     Title_kobe, Title_many_terms, Title_jordan_graded}

\* The keywords of a search and the 'search' section of config.
Keywords == {<<>>, <<" ">>, <<" ", "A">>, <<"B">>}
NoFilters == [player |-> None, year |-> None, set |-> None, sport |-> None]
SearchConfigs == {NoFilters, [NoFilters EXCEPT !.player = Some(Str_michael_jordan)]}

Queries == {<<"A">>, <<"B">>}

(***************************************************************************)
(* PriceAnalyzer._analyze_sportscardpro                                    *)
(* cards is the reply of client.search_cards, stats_replies[i] the reply   *)
(* of client.get_market_value for the i-th card.  search is the 'search'   *)
(* section of config: the optional player, year, set and sport filters.    *)
(***************************************************************************)
BuildQuery(keyword, search) ==
    LET opt(f) == IF f = None THEN <<>> ELSE <<Get(f)>>
        query_parts ==
            (IF keyword # <<>> /\ Strip(keyword) # <<>> THEN <<Strip(keyword)>> ELSE <<>>)
            \o opt(search.player) \o opt(search.year) \o opt(search.set)
            \o opt(search.sport)
    IN  Join(query_parts)

\* `if market_value <= 0 or current_price <= 0: continue`
SkipCard_zero_only(card) == card.market_value = 0 \/ card.price = 0

SkipCard(card) == card.market_value <= 0 \/ card.price <= 0

_analyze_sportscardpro(self, keyword, search, cards, stats_replies) ==
    LET query == BuildQuery(keyword, search)
    IN  IF query = <<>> THEN <<>>
        ELSE IF cards = <<>> THEN <<>>
        ELSE
        LET discount_pct(c) == DiscountPct(R(c.market_value), R(c.price))
            admitted ==
                {i \in 1..Len(cards) :
                    /\ ~SkipCard(cards[i])
                    /\ MeetsThreshold(self, discount_pct(cards[i]))}
            row(i) ==
                LET card == cards[i]
                    market_value == R(card.market_value)
                    current_price == R(card.price)
                    \* `if card_id: market_stats = client.get_market_value(card_id)`
                    market_stats == IF card.card_id # <<>> THEN stats_replies[i] ELSE None
                    potential_profit == RSub(market_value, current_price)
                IN  [title |-> card.title,
                     active_price |-> current_price,
                     market_value |-> market_value,
                     avg_sold_price |-> IF market_stats # None
                                        THEN R(Get(market_stats).average) ELSE market_value,
                     median_sold_price |-> IF market_stats # None
                                           THEN R(Get(market_stats).median) ELSE market_value,
                     discount_pct |-> discount_pct(card),
                     potential_profit |-> potential_profit,
                     profit_margin |-> ProfitMargin(potential_profit, current_price),
                     sold_comps |-> IF market_stats # None
                                    THEN Get(market_stats).sample_size ELSE 0,
                     price_std_dev |-> IF market_stats # None
                                       THEN Get(market_stats).std_dev ELSE 0,
                     player |-> card.player,
                     year |-> card.year,
                     set |-> card.set]
            idx == SelectIdx([i \in 1..Len(cards) |-> i], admitted, 1)
            opportunities == [k \in 1..Len(idx) |-> row(idx[k])]
        IN  SortByDiscount(opportunities)

(***************************************************************************)
(* PriceAnalyzer._is_non_sports_card (title is already lowercase)          *)
(***************************************************************************)
_is_non_sports_card(title) ==
    \E k \in 1..Len(non_card_keywords) : Contains(title, non_card_keywords[k])

(***************************************************************************)
(* PriceAnalyzer._calculate_match_score                                    *)
(* A score is a double, written in thousandths: 10 * k is the double       *)
(* nearest to k / 100, and 10 * k + 1, 10 * k - 1 are the doubles next     *)
(* above and below it, which the additions below produce by rounding.      *)
(***************************************************************************)
\* matching_terms * 0.05 in IEEE-754 double arithmetic
FloatMul005(n) == 50 * n + (IF n \in {3, 6, 7} THEN 1 ELSE 0)

\* x + y in IEEE-754 double arithmetic, for the partial sums x and the
\* increments y of the score: the decimal sum, one rounding step off for
\* the operands listed.
FloatAdd(x, y) ==
    IF x = 0 THEN y
    ELSE IF y = 0 THEN x
    ELSE LET nearest == 10 * ((x + y + 5) \div 10)
         IN  CASE <<x, y>> \in {<<200, 100>>, <<200, 151>>, <<800, 50>>, <<800, 151>>}
                    -> nearest + 1
               [] <<x, y>> \in {<<700, 100>>, <<700, 200>>} -> nearest - 1
               [] OTHER -> nearest

Min_first(a, b) == a

Min(a, b) == IF a <= b THEN a ELSE b

\* scp_card.get('year', '').lower() raises AttributeError for a year that
\* is not a string
MatchScoreRaises(scp_card) == ~scp_card.year_is_str

PlayerBonus == 500
SetBonus == 300
YearBonus == 200
TermBonusCap == 200
ScoreCap == 1000

\* min(matching_terms * 0.05, 0.2)
TermBonus_uncapped(matching_terms) == FloatMul005(matching_terms)

TermBonus(matching_terms) == Min(FloatMul005(matching_terms), TermBonusCap)

_calculate_match_score(listing, scp_card) ==
    LET listing_title == Lower(listing.title)
        player == Lower(scp_card.player)
        card_set == Lower(scp_card.set)
        year == Lower(scp_card.year)
        s0 == 0
        s1 == IF player # <<>> /\ Contains(listing_title, player)
              THEN FloatAdd(s0, PlayerBonus) ELSE s0
        s2 == IF card_set # <<>>
                 /\ \E w \in 1..Len(Split(card_set)) :
                        Contains(listing_title, Split(card_set)[w])
              THEN FloatAdd(s1, SetBonus) ELSE s1
        s3 == IF year # <<>> /\ Contains(listing_title, year)
              THEN FloatAdd(s2, YearBonus) ELSE s2
        matching_terms ==
            Cardinality({t \in 1..Len(card_terms) : Contains(listing_title, card_terms[t])})
        s4 == FloatAdd(s3, TermBonus(matching_terms))
    IN  Min(s4, ScoreCap)

\* The two title tests above, evaluated once for every title and card of
\* the model and looked up by the calls below.
ScoreTable ==
    [t \in Titles, c \in {c \in MatchCards : ~MatchScoreRaises(c)} |->
        _calculate_match_score(Listing(t, 0, 0), c)]
MatchScoreOf(listing, scp_card) == ScoreTable[listing.title, scp_card]

NonSportsTable == [t \in Titles |-> _is_non_sports_card(Lower(t))]
IsNonSportsCardOf_never(listing) == FALSE

IsNonSportsCardOf(listing) == NonSportsTable[listing.title]

(***************************************************************************)
(* PriceAnalyzer.analyze_with_scraping                                     *)
(* scp_cards is the reply of sportscardpro_client.search_cards and         *)
(* ebay_listings the reply of ebay_scraper.search_listings.  A listing is  *)
(* [title, price, shipping_cost, total_cost].  The result is               *)
(* [raised, opportunities]: raised says that an exception left the call.   *)
(***************************************************************************)
MinMatchScore == 300

\* The loop over scp_cards from card i on: <<index of best_match (0 for
\* None), best_match_score>>.
\* A selection that replaces the best match on an equal score as well.
RECURSIVE BestMatchFrom_last(_, _, _, _, _)
BestMatchFrom_last(listing, scp_cards, i, best_match, best_match_score) ==
    IF i > Len(scp_cards) THEN <<best_match, best_match_score>>
    ELSE LET match_score == MatchScoreOf(listing, scp_cards[i])
         IN  IF match_score >= best_match_score
             THEN BestMatchFrom_last(listing, scp_cards, i + 1, i, match_score)
             ELSE BestMatchFrom_last(listing, scp_cards, i + 1, best_match, best_match_score)

RECURSIVE BestMatchFrom(_, _, _, _, _)
BestMatchFrom(listing, scp_cards, i, best_match, best_match_score) ==
    IF i > Len(scp_cards) THEN <<best_match, best_match_score>>
    ELSE LET match_score == MatchScoreOf(listing, scp_cards[i])
         IN  IF match_score > best_match_score
             THEN BestMatchFrom(listing, scp_cards, i + 1, i, match_score)
             ELSE BestMatchFrom(listing, scp_cards, i + 1, best_match, best_match_score)

BestMatch(listing, scp_cards) == BestMatchFrom(listing, scp_cards, 1, 0, 0)

\* `if best_match and best_match_score > 0.3`
AcceptMatch_at_least(best) == best[1] # 0 /\ best[2] >= MinMatchScore

AcceptMatch(best) == best[1] # 0 /\ best[2] > MinMatchScore

\* `if market_value == 0: continue` and `if listing_price == 0: continue`
SkipPair(market_value, listing_price) == market_value = 0 \/ listing_price = 0

\* The comparison of the listings with their best matches: scored[i] says
\* that listing i is not filtered out, best[i] is its best match.
ComparePrices(self, scp_cards, ebay_listings, query, scored, best) ==
        LET market_value(i) == scp_cards[best[i][1]].market_value
            listing_price(i) == ebay_listings[i].total_cost
            discount_pct(i) == DiscountPct(R(market_value(i)), R(listing_price(i)))
            admitted ==
                {i \in 1..Len(ebay_listings) :
                    /\ scored[i]
                    /\ AcceptMatch(best[i])
                    /\ ~SkipPair(market_value(i), listing_price(i))
                    /\ MeetsThreshold(self, discount_pct(i))}
            opp(i) ==
                [listing |-> ebay_listings[i],
                 market_data |-> scp_cards[best[i][1]],
                 market_value |-> R(market_value(i)),
                 listing_price |-> R(listing_price(i)),
                 discount_pct |-> discount_pct(i),
                 potential_profit |-> RSub(R(market_value(i)), R(listing_price(i))),
                 match_score |-> best[i][2],
                 query |-> query]
            idx == SelectIdx([i \in 1..Len(ebay_listings) |-> i], admitted, 1)
            opportunities == [k \in 1..Len(idx) |-> opp(idx[k])]
        IN  [raised |-> FALSE, opportunities |-> SortByDiscount(opportunities)]

\* The listings that are scored, and the best match of each of them.
ScoredListings(ebay_listings) ==
    [i \in 1..Len(ebay_listings) |-> ~IsNonSportsCardOf(ebay_listings[i])]

\* A matching in which a card taken by an earlier listing is not offered to
\* the later ones.
BestMatches_exclusive(scp_cards, ebay_listings) ==
    [i \in 1..Len(ebay_listings) |->
        IF \/ IsNonSportsCardOf(ebay_listings[i])
           \/ \E j \in 1..(i - 1) :
                  /\ ~IsNonSportsCardOf(ebay_listings[j])
                  /\ BestMatch(ebay_listings[j], scp_cards)[1]
                         = BestMatch(ebay_listings[i], scp_cards)[1]
        THEN <<0, 0>>
        ELSE BestMatch(ebay_listings[i], scp_cards)]

BestMatches(scp_cards, ebay_listings) ==
    [i \in 1..Len(ebay_listings) |->
        IF ~IsNonSportsCardOf(ebay_listings[i])
        THEN BestMatch(ebay_listings[i], scp_cards)
        ELSE <<0, 0>>]

analyze_with_scraping(self, scp_cards, ebay_listings, query) ==
    IF scp_cards = <<>> THEN [raised |-> FALSE, opportunities |-> <<>>]
    ELSE IF ebay_listings = <<>> THEN [raised |-> FALSE, opportunities |-> <<>>]
    ELSE IF \E i \in 1..Len(ebay_listings) :
                /\ ~IsNonSportsCardOf(ebay_listings[i])
                /\ \E c \in 1..Len(scp_cards) : MatchScoreRaises(scp_cards[c])
    THEN [raised |-> TRUE, opportunities |-> <<>>]
    ELSE ComparePrices(self, scp_cards, ebay_listings, query,
                       ScoredListings(ebay_listings),
                       BestMatches(scp_cards, ebay_listings))

(***************************************************************************)
(* PriceAnalyzer.analyze_by_keyword                                        *)
(* keywords is the list of search terms, outcomes[i] what the client does  *)
(* for the i-th term: it raises, or it replies with the listings (eBay     *)
(* client) or with the cards and their statistics (Sports Card Pro         *)
(* client).  The result is a dict: a sequence of <<key, value>> in the     *)
(* order of insertion.                                                     *)
(***************************************************************************)
MaxKeywords == 2    \* longest list of keywords

DictKeys(d) == {d[k][1] : k \in 1..Len(d)}

DictGet(d, key) == d[CHOOSE k \in 1..Len(d) : d[k][1] = key][2]

\* d[key] = value
DictSet(d, key, value) ==
    IF key \in DictKeys(d)
    THEN [k \in 1..Len(d) |-> IF d[k][1] = key THEN <<key, value>> ELSE d[k]]
    ELSE Append(d, <<key, value>>)

\* The three sold records of a reply of search_sold_listings.
SoldAt(price) ==
    LET record == [price |-> price, end_time |-> None]
    IN  <<record, record, record>>

\* What the eBay client does for one keyword.
EbayOutcomes ==
    {[raised |-> TRUE, active |-> <<>>, sold |-> <<>>],
     [raised |-> FALSE, active |-> <<[title |-> <<"x">>, price |-> 75]>>,
      sold |-> SoldAt(100)],
     [raised |-> FALSE, active |-> <<[title |-> <<"x">>, price |-> 90]>>,
      sold |-> SoldAt(100)],
     [raised |-> FALSE,
      active |-> <<[title |-> <<"x">>, price |-> 40], [title |-> <<"x">>, price |-> 30]>>,
      sold |-> SoldAt(50)]}

\* What the Sports Card Pro client does for one keyword.
ScpOutcomes ==
    {[raised |-> TRUE, cards |-> <<>>, stats_replies |-> <<>>],
     [raised |-> FALSE,
      cards |-> <<Card(Id1, Str_michael_jordan, Str_fleer, Str_1986, TRUE, 100, 50)>>,
      stats_replies |-> <<None>>],
     [raised |-> FALSE,
      cards |-> <<Card(Id1, Str_michael_jordan, Str_fleer, Str_1986, TRUE, 100, 90)>>,
      stats_replies |-> <<None>>],
     [raised |-> FALSE, cards |-> <<>>, stats_replies |-> <<>>]}

\* `except Exception as e: ... continue`: the index the loop goes on with
\* after the analysis of keywords[i] raised.
AfterFailure_abort(i, keywords) == Len(keywords) + 1

AfterFailure(i, keywords) == i + 1

\* The body of the try block for one keyword.
AnalyzeKeyword(self, keyword, is_sportscardpro, search, outcome) ==
    IF is_sportscardpro
    THEN _analyze_sportscardpro(self, keyword, search, outcome.cards,
                                outcome.stats_replies)
    ELSE find_opportunities(self, outcome.active, outcome.sold)

\* `if not opportunities.empty: results[keyword] = opportunities`
StoreOpportunities_always(results, keyword, opportunities) ==
    DictSet(results, keyword, opportunities)

StoreOpportunities(results, keyword, opportunities) ==
    IF opportunities # <<>> THEN DictSet(results, keyword, opportunities) ELSE results

RECURSIVE AnalyzeKeywordsFrom(_, _, _, _, _, _, _)
AnalyzeKeywordsFrom(self, keywords, is_sportscardpro, search, outcomes, i, results) ==
    IF i > Len(keywords) THEN results
    ELSE IF outcomes[i].raised
    THEN AnalyzeKeywordsFrom(self, keywords, is_sportscardpro, search, outcomes,
                             AfterFailure(i, keywords), results)
    ELSE AnalyzeKeywordsFrom(self, keywords, is_sportscardpro, search, outcomes, i + 1,
                             StoreOpportunities(results, keywords[i],
                                 AnalyzeKeyword(self, keywords[i], is_sportscardpro,
                                                search, outcomes[i])))

analyze_by_keyword(self, keywords, is_sportscardpro, search, outcomes) ==
    AnalyzeKeywordsFrom(self, keywords, is_sportscardpro, search, outcomes, 1, <<>>)

(***************************************************************************)
(* The dashboard: the sidebar inputs and the search logic.                 *)
(***************************************************************************)
MaxSearches == 2    \* searches of one session

\* The sidebar of the Sports Card Pro source: the player, sport and query
\* fields (year and set are left empty) and the eBay scraping checkbox.
SportsCardProForms ==
    [api_source : {"sportscardpro"},
     use_ebay_scraping : BOOLEAN,
     query : {<<>>, <<"A">>},
     player : {<<>>, Str_michael_jordan},
     sport : {<<"B">>},
     lines : {<<>>}]

\* The sidebar of the eBay source: the lines of the keywords text area.
KeywordLines == {<<"A">>, <<"B">>, <<" ">>}

EbayForms ==
    [api_source : {"ebay"},
     use_ebay_scraping : {FALSE},
     query : {<<>>},
     player : {<<>>},
     sport : {<<>>},
     lines : SeqsOf(KeywordLines, 0, MaxKeywords)]

Forms == SportsCardProForms \cup EbayForms

\* `keywords = [k.strip() for k in keywords_input.split('\n') if k.strip()]`
RECURSIVE StripLines(_, _)
StripLines(lines, i) ==
    IF i > Len(lines) THEN <<>>
    ELSE (IF Strip(lines[i]) # <<>> THEN <<Strip(lines[i])>> ELSE <<>>)
         \o StripLines(lines, i + 1)

\* The keywords list the sidebar builds.
FormKeywords(form) ==
    IF form.api_source = "sportscardpro"
    THEN IF form.query # <<>> THEN <<form.query>>
         ELSE IF form.player # <<>> THEN <<form.player>>
         ELSE IF form.sport # <<>> THEN <<form.sport>>
         ELSE << <<>> >>
    ELSE StripLines(form.lines, 1)

\* The 'search' section of config after the sidebar has been read.
FormSearch(form) ==
    LET opt(x) == IF x # <<>> THEN Some(x) ELSE None
    IN  IF form.api_source = "sportscardpro"
        THEN [player |-> opt(form.player), year |-> None, set |-> None,
              sport |-> opt(form.sport)]
        ELSE NoFilters

IsHybrid(form) == form.use_ebay_scraping /\ form.api_source = "sportscardpro"

\* What the catalog and the scraper reply for one query of the hybrid mode.
HybridOutcomes ==
    {[cards |-> <<>>, listings |-> <<>>],
     [cards |-> <<Card(Id1, Str_michael_jordan, Str_fleer, Str_1986, TRUE, 100, 50)>>,
      listings |-> <<Listing(Title_jordan_fleer, 50, 0)>>],
     [cards |-> <<Card(Id1, Str_michael_jordan, Str_fleer, Str_1986, TRUE, 100, 50),
                  Card(Id2, Str_kobe_bryant, Str_topps_chrome, Str_1996, TRUE, 200, 50)>>,
      listings |-> <<Listing(Title_jordan_fleer, 85, 5), Listing(Title_kobe, 45, 5)>>],
     [cards |-> <<Card(Id1, Str_michael_jordan, Str_fleer, Str_1986, TRUE, 100, 50)>>,
      listings |-> <<Listing(Title_funko, 50, 0)>>],
     [cards |-> <<Card(Id3, Str_michael_jordan, Str_fleer, Str_1986, FALSE, 100, 50)>>,
      listings |-> <<Listing(Title_jordan_fleer, 50, 0)>>]}

OutcomesOf(form) ==
    IF IsHybrid(form) THEN HybridOutcomes
    ELSE IF form.api_source = "sportscardpro" THEN ScpOutcomes
    ELSE EbayOutcomes

\* The loop of the hybrid mode from keyword i on.  An exception of
\* analyze_with_scraping leaves the loop and the try block.
\* The scraping results of the queries: results[i] is what
\* analyze_with_scraping returns or raises for keywords[i].
ScrapingResults(self, keywords, outcomes) ==
    [i \in 1..Len(keywords) |->
        analyze_with_scraping(self, outcomes[i].cards, outcomes[i].listings,
                              keywords[i])]

\* `if result.get('opportunities'): results[query] = result`
RECURSIVE HybridLoopFrom(_, _, _, _)
HybridLoopFrom(keywords, scraped, i, results) ==
    IF i > Len(keywords) THEN [failed |-> FALSE, results |-> results]
    ELSE IF scraped[i].raised THEN [failed |-> TRUE, results |-> results]
    ELSE HybridLoopFrom(keywords, scraped, i + 1,
                        StoreOpportunities(results, keywords[i],
                                           scraped[i].opportunities))

\* The try block of the search logic up to `# Store results`.
RunAnalysis(self, form, outcomes) ==
    IF IsHybrid(form)
    THEN HybridLoopFrom(FormKeywords(form),
                        ScrapingResults(self, FormKeywords(form), outcomes), 1, <<>>)
    ELSE [failed |-> FALSE,
          results |-> analyze_by_keyword(self, FormKeywords(form),
                                         form.api_source = "sportscardpro",
                                         FormSearch(form), outcomes)]

\* `sum(len(df) ... for df in results.values())`
DealsFound(results) == SumSeq([k \in 1..Len(results) |-> Len(results[k][2])])

\* A search logic that adds its results to the ones of the session.
SearchLogic_merging(state, keywords, analysis, t) ==
    IF keywords = <<>> THEN state
    ELSE IF analysis.failed THEN state
    ELSE [opportunities |-> state.opportunities \o analysis.results,
          last_search |-> t,
          search_history |->
              IF analysis.results # <<>>
              THEN Append(state.search_history,
                          [timestamp |-> t, keywords |-> keywords,
                           deals_found |-> DealsFound(analysis.results)])
              ELSE state.search_history]

\* The session state after the search logic has run at time t; analysis
\* is the outcome of its try block up to `# Store results`.
SearchLogic(state, keywords, analysis, t) ==
    IF keywords = <<>> THEN state
    ELSE IF analysis.failed THEN state
    ELSE [opportunities |-> analysis.results,
          last_search |-> t,
          search_history |->
              IF analysis.results # <<>>
              THEN Append(state.search_history,
                          [timestamp |-> t, keywords |-> keywords,
                           deals_found |-> DealsFound(analysis.results)])
              ELSE state.search_history]

(***************************************************************************)
(* eBayClient.search_sold_listings and _parse_listing (is_sold = True).    *)
(* An item of the reply is [price, endTime]: endTime is None when          *)
(* listingInfo has no 'endTime', else the string sent, carried as          *)
(* [valid, age, aware]: valid says fromisoformat accepts it, aware that it *)
(* ends in Z or in an offset, age is the age of the time it spells.        *)
(***************************************************************************)
ItemPrices == {100, 200}
ItemEndTimes ==
    {None, Some([valid |-> FALSE, age |-> 0, aware |-> FALSE])}
    \cup {Some(t) : t \in [valid : {TRUE}, age : {0, MaxAgeTicks}, aware : BOOLEAN]}
SoldItems == [price : ItemPrices, endTime : ItemEndTimes]

\* The `days_back` of the search, in days.
SoldDays == {1}

\* `try: end_time = datetime.fromisoformat(...) except Exception: ...`
ParseEndTime(item) ==
    IF item.endTime = None THEN None
    ELSE IF ~Get(item.endTime).valid THEN None
    ELSE Some([age |-> Get(item.endTime).age, aware |-> Get(item.endTime).aware])

_parse_listing(item) == [price |-> item.price, end_time |-> ParseEndTime(item)]

\* The body of the loop over the items: TRUE when the listing is appended.
\* `listing['end_time'] >= cutoff_date` raises TypeError for an aware
\* end_time, cutoff_date being naive; the except of the loop goes on with
\* the next item.
AppendsSold(listing, days_back) ==
    IF listing.end_time = None THEN TRUE
    ELSE IF Get(listing.end_time).aware THEN FALSE
    ELSE Get(listing.end_time).age <= days_back * TicksPerDay

\* request_fails: _make_request raises, and the outer except returns [].
search_sold_listings(items, days_back, request_fails) ==
    IF request_fails THEN <<>>
    ELSE SelectIdx([i \in 1..Len(items) |-> _parse_listing(items[i])],
                   {i \in 1..Len(items) : AppendsSold(_parse_listing(items[i]), days_back)},
                   1)

(***************************************************************************)
(* PriceAnalyzer.get_summary_stats                                         *)
(* opportunities_df is the sequence of the rows; the columns read are      *)
(* discount_pct and potential_profit.                                      *)
(***************************************************************************)
MaxDeals == 3    \* rows of a DataFrame passed to get_summary_stats

RECURSIVE RSumSeq(_)
RSumSeq(s) == IF s = <<>> THEN R(0) ELSE RAdd(Head(s), RSumSeq(Tail(s)))

RECURSIVE RMaxSeq(_)
RMaxSeq(s) ==
    IF Len(s) = 1 THEN s[1]
    ELSE IF RGt(Head(s), RMaxSeq(Tail(s))) THEN Head(s) ELSE RMaxSeq(Tail(s))

\* Series.mean(): NaN, written 0/0, for an empty series.
NaN == [n |-> 0, d |-> 0]
MeanSeq(s) == IF s = <<>> THEN NaN ELSE RDiv(RSumSeq(s), R(Len(s)))

\* The statistics of the columns without the test of `.empty`.
SummaryOf(discount_pct, potential_profit) ==
    [total_deals |-> Len(discount_pct),
     avg_discount |-> MeanSeq(discount_pct),
     total_potential_profit |-> RSumSeq(potential_profit),
     avg_potential_profit |-> MeanSeq(potential_profit),
     max_discount |-> IF discount_pct = <<>> THEN NaN ELSE RMaxSeq(discount_pct),
     max_profit |-> IF potential_profit = <<>> THEN NaN ELSE RMaxSeq(potential_profit)]

get_summary_stats_unguarded(self, opportunities_df) ==
    SummaryOf([k \in 1..Len(opportunities_df) |-> opportunities_df[k].discount_pct],
              [k \in 1..Len(opportunities_df) |-> opportunities_df[k].potential_profit])

get_summary_stats(self, opportunities_df) ==
    IF opportunities_df = <<>>
    THEN [total_deals |-> 0,
          avg_discount |-> R(0),
          total_potential_profit |-> R(0),
          avg_potential_profit |-> R(0),
          max_discount |-> R(0),
          max_profit |-> R(0)]
    ELSE SummaryOf([k \in 1..Len(opportunities_df) |-> opportunities_df[k].discount_pct],
                   [k \in 1..Len(opportunities_df) |-> opportunities_df[k].potential_profit])

\* The rows of the calls of get_summary_stats: the discount and the profit
\* of a listing admitted at the threshold 20.
SummaryRows ==
    {[discount_pct |-> DiscountPct(R(v[1]), R(v[2])), potential_profit |-> R(v[1] - v[2])] :
        v \in {<<50, 30>>, <<50, 40>>, <<100, 30>>, <<100, 40>>, <<100, 75>>}}

(***************************************************************************)
(* The dashboard: the display of the results (`# Display results`).        *)
(***************************************************************************)
\* `isinstance(result, dict) and 'opportunities' in result`: the value of a
\* query of the hybrid mode; its opportunities are not empty.
IsScrapingResult(result) == result # <<>> /\ "listing" \in DOMAIN result[1]

\* The row `flattened.append({...})` makes of an opportunity of the hybrid
\* mode.
Flatten(opp) ==
    [title |-> opp.listing.title,
     active_price |-> opp.listing_price,
     market_value |-> opp.market_value,
     avg_sold_price |-> opp.market_value,
     median_sold_price |-> opp.market_value,
     discount_pct |-> opp.discount_pct,
     potential_profit |-> opp.potential_profit,
     profit_margin |-> IF opp.listing_price.n > 0
                       THEN ProfitMargin(opp.potential_profit, opp.listing_price)
                       ELSE R(0),
     sold_comps |-> 0,
     price_std_dev |-> 0,
     player |-> opp.market_data.player,
     year |-> opp.market_data.year,
     set |-> opp.market_data.set,
     shipping_cost |-> opp.listing.shipping_cost]

\* The DataFrame a value of session_state.opportunities contributes.
FrameOf(result) ==
    IF IsScrapingResult(result)
    THEN [i \in 1..Len(result) |-> Flatten(result[i])]
    ELSE result

\* The frame of the first query alone.
AllOpportunitiesFrom_first(opportunities, k) ==
    IF k > Len(opportunities) \/ k > 1 THEN <<>> ELSE FrameOf(opportunities[k][2])

\* pd.concat(all_opportunities_list, ignore_index=True) of the frames from
\* the k-th query on.
RECURSIVE AllOpportunitiesFrom(_, _)
AllOpportunitiesFrom(opportunities, k) ==
    IF k > Len(opportunities) THEN <<>>
    ELSE FrameOf(opportunities[k][2]) \o AllOpportunitiesFrom(opportunities, k + 1)

\* The summary metrics shown for all_opportunities, None when nothing is
\* shown.
SummaryMetrics(self, all_opportunities) ==
    IF all_opportunities = <<>> THEN None
    ELSE Some(get_summary_stats(self, all_opportunities))

\* `if st.session_state.opportunities:` ... the summary metrics.
DisplayResults(self, opportunities) ==
    IF opportunities = <<>> THEN None
    ELSE SummaryMetrics(self, AllOpportunitiesFrom(opportunities, 1))

(***************************************************************************)
(* utils.retry_on_failure and the request method of SportsCardProClient.   *)
(* Time is time.time() in whole seconds.                                   *)
(***************************************************************************)
\* @retry_on_failure(max_retries=3, delay=1.0) on _make_request
ClientRetry == [max_retries |-> 3, delay |-> 1]

\* the decorations in the repository (3, 1.0 and 2, 3.0), and a single attempt
RetryConfigs ==
    {ClientRetry, [max_retries |-> 2, delay |-> 3], [max_retries |-> 1, delay |-> 1]}

\* SportsCardProClient(api_key, rate_limit_per_min=60)
DefaultRateLimit == 60

RateLimits == {1, 2}

SecondsPerMinute == 60

ApiMethods == {"search_cards", "get_card_details", "get_sales_history", "get_market_value"}

\* __init__ stores rate_limit_per_min; the wrapper holds the loop variable,
\* the times at which func was invoked, whether each invocation returned,
\* the sleeps, and how the wrapper ended.
NewWrapper(retry, rate_limit_per_min) ==
    [max_retries |-> retry.max_retries,
     delay |-> retry.delay,
     rate_limit_per_min |-> rate_limit_per_min,
     clock |-> 0,
     requests |-> <<>>,
     attempt |-> 0,
     invoked |-> <<>>,
     outcomes |-> <<>>,
     in_flight |-> 0,
     slept |-> <<>>,
     result |-> "none",
     by_attempt |-> 0]

\* `if attempt == max_retries - 1: raise`
LastAttempt_never(w) == FALSE

LastAttempt(w) == w.attempt = w.max_retries - 1

(***************************************************************************)
(* The state machine.                                                      *)
(***************************************************************************)
NoCall == [op |-> "none", args |-> <<>>, raised |-> FALSE, ret |-> None]

NoSession == [opportunities |-> <<>>, last_search |-> 0, search_history |-> <<>>]

Init ==
    /\ analyzer \in PriceAnalyzer
    /\ pc = "idle"
    /\ call = NoCall
    /\ session = NoSession
    /\ now = 1
    /\ wrapper = NewWrapper(ClientRetry, DefaultRateLimit)

\* The caller takes the returned value; the next call may start.
Return ==
    /\ pc = "returned"
    /\ pc' = "idle"
    /\ call' = NoCall
    /\ UNCHANGED <<analyzer, session, now, wrapper>>

CalculateMarketValue ==
    /\ pc = "idle"
    /\ \E sold_listings \in SeqsOf(SoldListing, 0, MaxSold) :
          call' = [op |-> "calculate_market_value",
                   args |-> <<sold_listings>>,
                   raised |-> FALSE,
                   ret |-> calculate_market_value(analyzer, sold_listings)]
    /\ pc' = "returned"
    /\ UNCHANGED <<analyzer, session, now, wrapper>>

CalculateMarketValueFloat64 ==
    /\ pc = "idle"
    /\ \E sold_listings \in SeqsOf(Quotes, 0, MaxQuotes) :
          call' = [op |-> "calculate_market_value",
                   args |-> <<sold_listings>>,
                   raised |-> FALSE,
                   ret |-> calculate_market_value_float64(analyzer, sold_listings)]
    /\ pc' = "returned"
    /\ UNCHANGED <<analyzer, session, now, wrapper>>

CalculateWeightedAverage ==
    /\ pc = "idle"
    /\ \E sold_listings \in SeqsOf(SoldListing, 0, 2) :
          call' = [op |-> "_calculate_weighted_average",
                   args |-> <<sold_listings>>,
                   raised |-> FALSE,
                   ret |-> _calculate_weighted_average(analyzer, sold_listings)]
    /\ pc' = "returned"
    /\ UNCHANGED <<analyzer, session, now, wrapper>>

\* A find_opportunities that raises the analyzer's min_sold_samples.
FindOpportunities_reconfigures ==
    /\ pc = "idle"
    /\ \E active_listings \in SeqsOf(ActiveListing, 0, MaxActive),
          sold_listings \in SeqsOf(DetectorSold, 0, MaxSold) \cup SampleSolds :
          call' = [op |-> "find_opportunities",
                   args |-> <<active_listings, sold_listings>>,
                   raised |-> FALSE,
                   ret |-> find_opportunities(analyzer, active_listings, sold_listings)]
    /\ pc' = "returned"
    /\ analyzer' = [analyzer EXCEPT !.min_sold_samples = @ + 1]
    /\ UNCHANGED <<session, now, wrapper>>

FindOpportunities ==
    /\ pc = "idle"
    /\ \E active_listings \in SeqsOf(ActiveListing, 0, MaxActive),
          sold_listings \in SeqsOf(DetectorSold, 0, MaxSold) \cup SampleSolds :
          call' = [op |-> "find_opportunities",
                   args |-> <<active_listings, sold_listings>>,
                   raised |-> FALSE,
                   ret |-> find_opportunities(analyzer, active_listings, sold_listings)]
    /\ pc' = "returned"
    /\ UNCHANGED <<analyzer, session, now, wrapper>>

AnalyzeSportscardpro ==
    /\ pc = "idle"
    /\ \E keyword \in Keywords, search \in SearchConfigs,
          cards \in SeqsOf(ScpCards, 0, MaxCards) :
          \E stats_replies \in [1..Len(cards) -> MarketStatsReplies] :
              call' = [op |-> "_analyze_sportscardpro",
                       args |-> <<keyword, search, cards, stats_replies>>,
                       raised |-> FALSE,
                       ret |-> _analyze_sportscardpro(analyzer, keyword, search,
                                                      cards, stats_replies)]
    /\ pc' = "returned"
    /\ UNCHANGED <<analyzer, session, now, wrapper>>

AnalyzeWithScraping ==
    /\ pc = "idle"
    /\ \E scp_cards \in SeqsOf(MatchCards, 0, MaxCards),
          ebay_listings \in SeqsOf(Listings, 0, MaxListings),
          query \in Queries :
          /\ Len(scp_cards) * Len(ebay_listings) <= MaxPairs
          /\ LET result == analyze_with_scraping(analyzer, scp_cards, ebay_listings, query)
             IN  call' = [op |-> "analyze_with_scraping",
                          args |-> <<scp_cards, ebay_listings, query>>,
                          raised |-> result.raised,
                          ret |-> result.opportunities]
    /\ pc' = "returned"
    /\ UNCHANGED <<analyzer, session, now, wrapper>>

CalculateMatchScore ==
    /\ pc = "idle"
    /\ \E title \in Titles, scp_card \in {c \in MatchCards : ~MatchScoreRaises(c)} :
          LET listing == Listing(title, 50, 0)
          IN  call' = [op |-> "_calculate_match_score",
                       args |-> <<listing, scp_card>>,
                       raised |-> FALSE,
                       ret |-> MatchScoreOf(listing, scp_card)]
    /\ pc' = "returned"
    /\ UNCHANGED <<analyzer, session, now, wrapper>>

AnalyzeByKeyword ==
    /\ pc = "idle"
    /\ \E is_sportscardpro \in BOOLEAN, keywords \in SeqsOf(Queries, 0, MaxKeywords) :
          \E outcomes \in [1..Len(keywords) ->
                              IF is_sportscardpro THEN ScpOutcomes ELSE EbayOutcomes] :
              call' = [op |-> "analyze_by_keyword",
                       args |-> <<keywords, is_sportscardpro, outcomes>>,
                       raised |-> FALSE,
                       ret |-> analyze_by_keyword(analyzer, keywords, is_sportscardpro,
                                                  NoFilters, outcomes)]
    /\ pc' = "returned"
    /\ UNCHANGED <<analyzer, session, now, wrapper>>

SearchSoldListings ==
    /\ pc = "idle"
    /\ \E items \in SeqsOf(SoldItems, 0, MaxSold), days_back \in SoldDays,
          request_fails \in BOOLEAN :
          call' = [op |-> "search_sold_listings",
                   args |-> <<items, days_back, request_fails>>,
                   raised |-> FALSE,
                   ret |-> search_sold_listings(items, days_back, request_fails)]
    /\ pc' = "returned"
    /\ UNCHANGED <<analyzer, session, now, wrapper>>

GetSummaryStats ==
    /\ pc = "idle"
    /\ \E opportunities_df \in SeqsOf(SummaryRows, 0, MaxDeals) :
          call' = [op |-> "get_summary_stats",
                   args |-> <<opportunities_df>>,
                   raised |-> FALSE,
                   ret |-> get_summary_stats(analyzer, opportunities_df)]
    /\ pc' = "returned"
    /\ UNCHANGED <<analyzer, session, now, wrapper>>

\* The search button is pressed: one run of the search logic, and of the
\* display of the results that follows it in the script.
SearchWith(forms) ==
    /\ pc = "idle"
    /\ now <= MaxSearches
    /\ \E form \in forms :
          \E outcomes \in [1..Len(FormKeywords(form)) -> OutcomesOf(form)] :
              \E analysis \in {RunAnalysis(analyzer, form, outcomes)} :
                  \E state \in {SearchLogic(session, FormKeywords(form), analysis, now)} :
                      /\ session' = state
                      /\ call' = [op |-> "search",
                                  args |-> <<form, outcomes, now>>,
                                  raised |-> FormKeywords(form) # <<>> /\ analysis.failed,
                                  ret |-> DisplayResults(analyzer, state.opportunities)]
    /\ now' = now + 1
    /\ pc' = "returned"
    /\ UNCHANGED <<analyzer, wrapper>>

Search == SearchWith(Forms)

\* The search of a sidebar that yields at most one keyword.
OneKeywordForms == {form \in Forms : Len(FormKeywords(form)) <= 1}

SearchOneKeyword == SearchWith(OneKeywordForms)

\* A method of the client calls self._make_request(...): the wrapper starts
\* `for attempt in range(max_retries)`.
ApiCall ==
    /\ pc = "idle"
    /\ Len(wrapper.requests) + wrapper.max_retries <= MaxRequests
    /\ \E method \in ApiMethods :
          call' = [op |-> method, args |-> <<>>, raised |-> FALSE, ret |-> None]
    /\ wrapper' = [wrapper EXCEPT !.attempt = 0, !.invoked = <<>>, !.outcomes = <<>>,
                                  !.slept = <<>>, !.result = "none", !.by_attempt = 0]
    /\ pc' = "attempt"
    /\ UNCHANGED <<analyzer, session, now>>

\* `return func(*args, **kwargs)`: _make_request sends the request.  The
\* rate_limit decorator is imported in its body and never applied, and
\* rate_limit_per_min is not read.
Invoke ==
    /\ pc = "attempt"
    /\ wrapper' = [wrapper EXCEPT !.requests = Append(@, wrapper.clock),
                                  !.invoked = Append(@, wrapper.clock),
                                  !.in_flight = @ + 1]
    /\ pc' = "in_request"
    /\ UNCHANGED <<analyzer, call, session, now>>

\* The request ends: func returns, or raises and the wrapper either raises
\* in turn (last attempt) or goes on to sleep.
Respond ==
    /\ pc = "in_request"
    /\ \E ok \in BOOLEAN :
          IF ok
          THEN /\ wrapper' = [wrapper EXCEPT !.in_flight = @ - 1, !.result = "returned",
                                             !.outcomes = Append(@, TRUE),
                                             !.by_attempt = wrapper.attempt + 1]
               /\ pc' = "wrapped"
          ELSE IF LastAttempt(wrapper)
          THEN /\ wrapper' = [wrapper EXCEPT !.in_flight = @ - 1, !.result = "raised",
                                             !.outcomes = Append(@, FALSE),
                                             !.by_attempt = wrapper.attempt + 1]
               /\ pc' = "wrapped"
          ELSE /\ wrapper' = [wrapper EXCEPT !.in_flight = @ - 1,
                                             !.outcomes = Append(@, FALSE)]
               /\ pc' = "sleeping"
    /\ UNCHANGED <<analyzer, call, session, now>>

\* `time.sleep(delay * (attempt + 1))`, then the next round of the loop;
\* when range(max_retries) is used up the wrapper returns None.
Sleep ==
    /\ pc = "sleeping"
    /\ wrapper' = [wrapper EXCEPT !.clock = @ + wrapper.delay * (wrapper.attempt + 1),
                                  !.slept = Append(@, wrapper.delay * (wrapper.attempt + 1)),
                                  !.attempt = @ + 1,
                                  !.result = IF wrapper.attempt + 1 < wrapper.max_retries
                                             THEN @ ELSE "returned None"]
    /\ pc' = IF wrapper.attempt + 1 < wrapper.max_retries THEN "attempt" ELSE "wrapped"
    /\ UNCHANGED <<analyzer, call, session, now>>

\* The method that called _make_request returns: the parsed response, or
\* its empty value when the wrapper raised (`except Exception`).
Finish ==
    /\ pc = "wrapped"
    /\ call' = [call EXCEPT !.ret = Some(wrapper.result)]
    /\ pc' = "returned"
    /\ UNCHANGED <<analyzer, session, now, wrapper>>

\* A second passes, between two calls or while a request is in flight.
Elapse ==
    /\ pc \in {"idle", "in_request"}
    /\ wrapper.clock < MaxClock
    /\ wrapper' = [wrapper EXCEPT !.clock = @ + 1]
    /\ UNCHANGED <<analyzer, pc, call, session, now>>

Next ==
    \/ CalculateMarketValue
    \/ CalculateMarketValueFloat64
    \/ CalculateWeightedAverage
    \/ FindOpportunities
    \/ AnalyzeSportscardpro
    \/ AnalyzeWithScraping
    \/ CalculateMatchScore
    \/ AnalyzeByKeyword
    \/ SearchSoldListings
    \/ GetSummaryStats
    \/ Search
    \/ SearchOneKeyword
    \/ ApiCall
    \/ Invoke
    \/ Respond
    \/ Sleep
    \/ Finish
    \/ Elapse
    \/ Return

Spec == Init /\ [][Next]_vars

\* The market value estimator alone, under every configuration.
NextEstimator ==
    \/ CalculateMarketValue
    \/ CalculateWeightedAverage
    \/ Return

SpecEstimator == Init /\ [][NextEstimator]_vars

\* The three producers of opportunities and the matcher.
InitDetector ==
    /\ Init
    /\ analyzer.recency_weight = [n |-> 1, d |-> 2]

NextDetector ==
    \/ FindOpportunities
    \/ AnalyzeSportscardpro
    \/ AnalyzeWithScraping
    \/ CalculateMatchScore
    \/ Return

SpecDetector == InitDetector /\ [][NextDetector]_vars

\* The market value estimator of an analyzer that weights by recency.
SpecRecency == InitDetector /\ [][NextEstimator]_vars

\* The comparison of scraped listings with the catalogue alone.
NextScraping ==
    \/ AnalyzeWithScraping
    \/ Return

SpecScraping == InitDetector /\ [][NextScraping]_vars

\* The market value estimator in double precision.
NextFloat64 ==
    \/ CalculateMarketValueFloat64
    \/ Return

SpecFloat64 == InitDetector /\ [][NextFloat64]_vars

\* The requests of one SportsCardProClient.
InitClient ==
    /\ analyzer \in DefaultAnalyzers
    /\ pc = "idle"
    /\ call = NoCall
    /\ session = NoSession
    /\ now = 1
    /\ \E rate_limit_per_min \in RateLimits :
          wrapper = NewWrapper(ClientRetry, rate_limit_per_min)

NextClient ==
    \/ ApiCall
    \/ Invoke
    \/ Respond
    \/ Sleep
    \/ Finish
    \/ Elapse
    \/ Return

SpecClient == InitClient /\ [][NextClient]_vars

\* retry_on_failure under each of its configurations.
InitRetry ==
    /\ analyzer \in DefaultAnalyzers
    /\ pc = "idle"
    /\ call = NoCall
    /\ session = NoSession
    /\ now = 1
    /\ \E retry \in RetryConfigs : wrapper = NewWrapper(retry, DefaultRateLimit)

SpecRetry == InitRetry /\ [][NextClient]_vars

\* find_opportunities of an analyzer built with the defaults.
InitDefaults ==
    /\ analyzer \in DefaultAnalyzers
    /\ pc = "idle"
    /\ call = NoCall
    /\ session = NoSession
    /\ now = 1
    /\ wrapper = NewWrapper(ClientRetry, DefaultRateLimit)

NextDefaults ==
    \/ FindOpportunities
    \/ Return

SpecDefaults == InitDefaults /\ [][NextDefaults]_vars

\* The sold records of the eBay client.
NextSold ==
    \/ SearchSoldListings
    \/ Return

SpecSold == InitDetector /\ [][NextSold]_vars

\* get_summary_stats alone.
NextSummary ==
    \/ GetSummaryStats
    \/ Return

SpecSummary == InitDetector /\ [][NextSummary]_vars

\* analyze_by_keyword alone, with both kinds of client.
InitOrchestrator ==
    /\ InitDetector
    /\ analyzer.min_sold_samples = 2

NextKeywords ==
    \/ AnalyzeByKeyword
    \/ Return

SpecKeywords == InitOrchestrator /\ [][NextKeywords]_vars

\* The dashboard: the searches of one session.
NextDashboard ==
    \/ Search
    \/ Return

SpecDashboard == InitOrchestrator /\ [][NextDashboard]_vars

\* The dashboard searched with one keyword at a time.
NextOneKeyword ==
    \/ SearchOneKeyword
    \/ Return

SpecOneKeyword == InitOrchestrator /\ [][NextOneKeyword]_vars

\* The dashboard up to the first search that stores its results.
NextFirstSearch ==
    \/ session = NoSession /\ Search
    \/ Return

SpecFirstSearch == InitOrchestrator /\ [][NextFirstSearch]_vars

(***************************************************************************)
(* Claims about the market value estimator.                                *)
(***************************************************************************)
IsMV == pc = "returned" /\ call.op = "calculate_market_value"
IsWA == pc = "returned" /\ call.op = "_calculate_weighted_average"

\* The number of usable records: price strictly greater than 0.
Usable(sold_listings) ==
    Cardinality({i \in 1..Len(sold_listings) : sold_listings[i].price > 0})

\* The positions of the records with a usable price and a timestamp.
Dated(sold_listings) ==
    {i \in 1..Len(sold_listings) :
        sold_listings[i].price > 0 /\ sold_listings[i].end_time # None}

\* The sum of the function f over the finite set S.
RECURSIVE SumOver(_, _)
SumOver(S, f) ==
    IF S = {} THEN 0
    ELSE LET i == CHOOSE j \in S : TRUE
         IN  f[i] + SumOver(S \ {i}, f)

\* C1 (as claimed): calculate_market_value returns None whenever fewer than
\* min_sold_samples records have a price > 0; every stats result it returns
\* has sample_size >= min_sold_samples.
C1_InsufficientBelowMinUsable ==
    IsMV =>
        /\ Usable(call.args[1]) < analyzer.min_sold_samples => call.ret = None
        /\ call.ret # None => Get(call.ret).sample_size >= analyzer.min_sold_samples

\* C5: market_value is the recency-weighted estimate (the weighted mean of
\* the dated usable prices) whenever some record has a price > 0 and a
\* timestamp; otherwise weighted_average is None and market_value is the
\* plain mean of the usable prices.
C5_MarketValueChoice ==
    IsMV /\ call.ret # None =>
        LET sold == call.args[1]
            st == Get(call.ret)
            w == [i \in Dated(sold) |->
                    Weight(analyzer.recency_weight, Days(Get(sold[i].end_time).age))]
            usable == {i \in 1..Len(sold) : sold[i].price > 0}
        IN  IF Dated(sold) # {}
            THEN /\ st.weighted_average # None
                 /\ st.market_value = Get(st.weighted_average)
                 \* market_value * sum(w) = sum(price * w)
                 /\ st.market_value.n * SumOver(Dated(sold), w)
                        = st.market_value.d
                            * SumOver(Dated(sold), [i \in Dated(sold) |-> sold[i].price * w[i]])
            ELSE /\ st.weighted_average = None
                 /\ st.market_value = st.average
                 /\ st.market_value.n * Cardinality(usable)
                        = st.market_value.d
                            * SumOver(usable, [i \in usable |-> sold[i].price])

\* C5 witness: an estimate that is the weighted one and differs from the mean.
C5_Witness ==
    /\ IsMV /\ call.ret # None
    /\ Dated(call.args[1]) # {}
    /\ Get(call.ret).market_value # Get(call.ret).average

\* Two sold records priced 100 and 200, both with a timestamp, under a
\* positive recency_weight (decay < 1).
TwoRecordCase ==
    /\ IsWA
    /\ Len(call.args[1]) = 2
    /\ {call.args[1][1].price, call.args[1][2].price} = {100, 200}
    /\ call.args[1][1].end_time # None
    /\ call.args[1][2].end_time # None
    /\ analyzer.recency_weight.n < analyzer.recency_weight.d

\* |x - p| for a rational x and an integer p
Dist(x, p) == LET diff == RSub(x, R(p)) IN Rat(Abs(diff.n), diff.d)

IsFO == pc = "returned" /\ call.op = "find_opportunities"
IsSCP == pc = "returned" /\ call.op = "_analyze_sportscardpro"
IsAWS == pc = "returned" /\ call.op = "analyze_with_scraping" /\ ~call.raised
IsScore == pc = "returned" /\ call.op = "_calculate_match_score"

Positive(x) == x.n > 0
Rows(df) == {df[k] : k \in 1..Len(df)}
Threshold == analyzer.discount_threshold

\* (value - price) / value * 100 >= threshold for integers value # 0, price,
\* without a division.
AtLeastThreshold(value, price) ==
    IF value > 0 THEN (value - price) * 100 >= Threshold * value
    ELSE (value - price) * 100 <= Threshold * value

\* The highest score of listing against the cards (0 for no card).
MaxScore(listing, cards) ==
    LET scores == {MatchScoreOf(listing, cards[c]) : c \in 1..Len(cards)} \cup {0}
    IN  CHOOSE m \in scores : \A x \in scores : x <= m

\* C2, find_opportunities: the rows are exactly the active listings with a
\* price > 0 whose discount against the market value is >= the threshold.
C2_FindOpportunities ==
    IsFO =>
        LET active == call.args[1]
            stats == calculate_market_value(analyzer, call.args[2])
            value == Get(stats).market_value
            expected ==
                {i \in 1..Len(active) :
                    /\ stats # None
                    /\ active[i].price > 0
                    /\ (value.n - active[i].price * value.d) * 100 >= Threshold * value.n}
        IN  /\ \A row \in Rows(call.ret) : RGe(row.discount_pct, R(Threshold))
            /\ Len(call.ret) = Cardinality(expected)
            /\ \A i \in expected :
                   Cardinality({k \in 1..Len(call.ret) :
                                   call.ret[k].active_price = R(active[i].price)})
                   = Cardinality({j \in expected : active[j].price = active[i].price})

\* C2, _analyze_sportscardpro: the rows are exactly the cards with a market
\* value > 0 and a price > 0 whose discount is >= the threshold.
C2_AnalyzeSportscardpro ==
    IsSCP =>
        LET cards == call.args[3]
            expected ==
                {i \in 1..Len(cards) :
                    /\ BuildQuery(call.args[1], call.args[2]) # <<>>
                    /\ cards[i].market_value > 0
                    /\ cards[i].price > 0
                    /\ AtLeastThreshold(cards[i].market_value, cards[i].price)}
        IN  /\ \A row \in Rows(call.ret) : RGe(row.discount_pct, R(Threshold))
            /\ Len(call.ret) = Cardinality(expected)
            /\ \A i \in expected :
                   \E row \in Rows(call.ret) :
                       /\ row.active_price = R(cards[i].price)
                       /\ row.market_value = R(cards[i].market_value)

\* C2, analyze_with_scraping: the opportunities are exactly the listings
\* that are scored, matched, pass the two guards on the matched value and
\* on the total cost, and whose discount is >= the threshold.
C2_AnalyzeWithScraping ==
    IsAWS =>
        LET cards == call.args[1]
            listings == call.args[2]
            value(i) == cards[BestMatch(listings[i], cards)[1]].market_value
            expected ==
                {i \in 1..Len(listings) :
                    /\ cards # <<>>
                    /\ ~IsNonSportsCardOf(listings[i])
                    /\ MaxScore(listings[i], cards) > MinMatchScore
                    /\ value(i) # 0
                    /\ listings[i].total_cost # 0
                    /\ AtLeastThreshold(value(i), listings[i].total_cost)}
        IN  /\ \A opp \in Rows(call.ret) : RGe(opp.discount_pct, R(Threshold))
            /\ Len(call.ret) = Cardinality(expected)
            /\ \A i \in expected :
                   Cardinality({k \in 1..Len(call.ret) : call.ret[k].listing = listings[i]})
                   = Cardinality({j \in expected : listings[j] = listings[i]})

\* C2: every opportunity of the three producers has discount_pct >= the
\* threshold, and every candidate that passes the numeric guards with
\* discount_pct >= the threshold is produced.
C2_AdmissionIsThePredicate ==
    /\ C2_FindOpportunities
    /\ C2_AnalyzeSportscardpro
    /\ C2_AnalyzeWithScraping

\* C2 witness: find_opportunities admits one listing and drops another one
\* that has a valid price.
C2_Witness ==
    /\ IsFO
    /\ Len(call.ret) = 1
    /\ Len(call.args[1]) = 2
    /\ \A i \in 1..2 : call.args[1][i].price > 0

\* C3: no row of find_opportunities or of _analyze_sportscardpro has
\* active_price <= 0 or market_value <= 0.
C3_PositivePriceAndValue ==
    IsFO \/ IsSCP =>
        \A row \in Rows(call.ret) :
            Positive(row.active_price) /\ Positive(row.market_value)

\* C3 witness: an input with a non-positive active price and a sold record
\* of price 0, and a non-empty result.
C3_Witness ==
    /\ IsFO
    /\ call.ret # <<>>
    /\ \E i \in 1..Len(call.args[1]) : call.args[1][i].price <= 0
    /\ \E i \in 1..Len(call.args[2]) : call.args[2][i].price <= 0

\* C4 (as claimed): no opportunity of analyze_with_scraping has
\* market_value <= 0 or listing_price <= 0.
C4_ScrapingSkipsNonPositive ==
    IsAWS =>
        \A opp \in Rows(call.ret) :
            Positive(opp.market_value) /\ Positive(opp.listing_price)

\* C9: the card recorded as market_data has the highest score among the
\* cards for its listing, that score is above 0.3, and a scored listing
\* whose highest score is 0.3 or less yields no opportunity.
C9_BestMatchAboveMinimum ==
    IsAWS =>
        LET cards == call.args[1]
            listings == call.args[2]
        IN  /\ \A opp \in Rows(call.ret) :
                   /\ \E c \in 1..Len(cards) : cards[c] = opp.market_data
                   /\ MatchScoreOf(opp.listing, opp.market_data)
                          = MaxScore(opp.listing, cards)
                   /\ opp.match_score = MaxScore(opp.listing, cards)
                   /\ opp.match_score > MinMatchScore
            /\ \A i \in 1..Len(listings) :
                   (cards # <<>> /\ ~IsNonSportsCardOf(listings[i])
                        /\ MaxScore(listings[i], cards) <= MinMatchScore)
                   => \A opp \in Rows(call.ret) : opp.listing # listings[i]

\* C9 witness: one listing is matched to the better of two cards that both
\* score above 0, another listing of the batch scores exactly 0.3 and is
\* left out.
C9_Witness ==
    /\ IsAWS
    /\ Len(call.ret) = 1
    /\ Len(call.args[2]) = 2
    /\ \A c \in 1..Len(call.args[1]) :
           MatchScoreOf(call.ret[1].listing, call.args[1][c]) > 0
    /\ \E c \in 1..Len(call.args[1]) :
           MatchScoreOf(call.ret[1].listing, call.args[1][c]) < call.ret[1].match_score
    /\ \E i \in 1..2 : MaxScore(call.args[2][i], call.args[1]) = MinMatchScore

\* The score in hundredths: the decimal that the double stands for.
Hundredths(score) == (score + 5) \div 10

IsABK == pc = "returned" /\ call.op = "analyze_by_keyword"
IsSearch == pc = "returned" /\ call.op = "search"

Remove(s, i) == SubSeq(s, 1, i - 1) \o SubSeq(s, i + 1, Len(s))

\* The positions of key in the call's keywords whose analysis did not raise
\* and found opportunities.
Successes(key) ==
    {j \in 1..Len(call.args[1]) :
        /\ call.args[1][j] = key
        /\ ~call.args[3][j].raised
        /\ AnalyzeKeyword(analyzer, key, call.args[2], NoFilters, call.args[3][j]) # <<>>}

\* The result of the call's list without its i-th keyword.
WithoutKeyword(i) ==
    analyze_by_keyword(analyzer, Remove(call.args[1], i), call.args[2], NoFilters,
                       Remove(call.args[3], i))

HybridOthers(form, outcomes) ==
    LET keywords == FormKeywords(form)
        ok(i) == ~analyze_with_scraping(analyzer, outcomes[i].cards,
                                        outcomes[i].listings, keywords[i]).raised
        idx == SelectIdx([i \in 1..Len(keywords) |-> i],
                         {i \in 1..Len(keywords) : ok(i)}, 1)
    IN  HybridLoopFrom([k \in 1..Len(idx) |-> keywords[idx[k]]],
                       ScrapingResults(analyzer,
                                       [k \in 1..Len(idx) |-> keywords[idx[k]]],
                                       [k \in 1..Len(idx) |-> outcomes[idx[k]]]),
                       1, <<>>).results

\* C8 (as claimed): after a search of the hybrid mode in which the analysis
\* of a query raised, the stored batch result is what the other queries
\* found.
C8_HybridFailureIsEmptyResult ==
    (IsSearch /\ IsHybrid(call.args[1]) /\ call.raised) =>
        session.opportunities = HybridOthers(call.args[1], call.args[2])

(***************************************************************************)
(* Claims about the matcher, the filter and the order of the results.      *)
(***************************************************************************)
\* The signals of a card that a title satisfies: the player, a word of the
\* set, the year, and each term of the vocabulary.
SignalsOf(title, card) ==
    LET t == Lower(title)
        words == Split(Lower(card.set))
    IN  (IF card.player # <<>> /\ Contains(t, Lower(card.player))
         THEN {<<"player">>} ELSE {})
        \cup (IF \E w \in 1..Len(words) : Contains(t, words[w])
              THEN {<<"set">>} ELSE {})
        \cup (IF card.year # <<>> /\ Contains(t, Lower(card.year))
              THEN {<<"year">>} ELSE {})
        \cup {<<"term", k>> : k \in {k \in 1..Len(card_terms) : Contains(t, card_terms[k])}}

\* C11: for a fixed card, a title that satisfies every signal another title
\* satisfies scores at least as much, and every score lies in [0, 1].
C11_ScoreMonotonicAndBounded ==
    IsScore =>
        /\ call.ret >= 0
        /\ call.ret <= ScoreCap
        /\ \A t2 \in Titles :
               SignalsOf(call.args[1].title, call.args[2]) \subseteq SignalsOf(t2, call.args[2])
               => MatchScoreOf(Listing(t2, 0, 0), call.args[2]) >= call.ret

\* C11 witness: a scored title whose signals are a proper subset of those
\* of a title whose uncapped sum exceeds 1.0.
C11_Witness ==
    /\ IsScore
    /\ call.ret > 0
    /\ call.ret < ScoreCap
    /\ SignalsOf(call.args[1].title, call.args[2])
           \subseteq SignalsOf(Title_jordan_graded, call.args[2])
    /\ SignalsOf(call.args[1].title, call.args[2])
           # SignalsOf(Title_jordan_graded, call.args[2])
    /\ MatchScoreOf(Listing(Title_jordan_graded, 0, 0), call.args[2]) = ScoreCap

\* The titles of the model that contain a term of the exclusion vocabulary
\* once lowercased.
ExcludedTitles ==
    {t \in Titles :
        \E k \in 1..Len(non_card_keywords) : Contains(Lower(t), non_card_keywords[k])}

\* C12: no opportunity of analyze_with_scraping has a listing whose
\* lowercased title contains a term of the exclusion vocabulary.
C12_ExcludedTitlesYieldNothing ==
    IsAWS => \A opp \in Rows(call.ret) : opp.listing.title \notin ExcludedTitles

\* C12 witness: a batch with an opportunity and with an excluded listing
\* that matches a card above 0.3 at a discount above the threshold.
C12_Witness ==
    /\ IsAWS
    /\ call.ret # <<>>
    /\ \E i \in 1..Len(call.args[2]) :
           LET listing == call.args[2][i]
               card == call.args[1][1]
           IN  /\ listing.title \in ExcludedTitles
               /\ MatchScoreOf(listing, card) > MinMatchScore
               /\ card.market_value > 0
               /\ listing.total_cost > 0
               /\ AtLeastThreshold(card.market_value, listing.total_cost)

\* What analyze_with_scraping returns for the call's cards and one listing
\* alone.
AloneOf(listing) ==
    analyze_with_scraping(analyzer, call.args[1], <<listing>>, call.args[3]).opportunities

\* C13: the opportunity, or the absence of one, of each listing of a batch
\* is what the listing yields alone against the same cards.
C13_PerListingDecision ==
    IsAWS =>
        \A i \in 1..Len(call.args[2]) :
            LET listing == call.args[2][i]
                mine == {k \in 1..Len(call.ret) : call.ret[k].listing = listing}
                same == {j \in 1..Len(call.args[2]) : call.args[2][j] = listing}
                alone == AloneOf(listing)
            IN  IF alone = <<>> THEN mine = {}
                ELSE /\ Cardinality(mine) = Cardinality(same)
                     /\ \A k \in mine : call.ret[k] = alone[1]

\* C13 witness: two different listings of one batch are both matched to the
\* same card.
C13_Witness ==
    /\ IsAWS
    /\ Len(call.ret) = 2
    /\ call.ret[1].listing.title # call.ret[2].listing.title
    /\ call.ret[1].market_data = call.ret[2].market_data
    /\ Len(call.args[1]) = 2

\* The number of positions of the sequence df that hold x.
Count(df, x) == Cardinality({k \in 1..Len(df) : df[k] = x})

\* df holds exactly the rows of the sequences of parts, each as often as
\* parts hold it.
ExactlyRowsOf(df, parts) ==
    /\ Len(df) = SumSeq([i \in 1..Len(parts) |-> Len(parts[i])])
    /\ \A i \in 1..Len(parts) :
           \A x \in Rows(parts[i]) :
               Count(df, x) = SumSeq([j \in 1..Len(parts) |-> Count(parts[j], x)])

\* df is ordered by discount_pct, highest first.
DiscountDescending(df) ==
    \A k \in 1..(Len(df) - 1) : RGe(df[k].discount_pct, df[k + 1].discount_pct)

\* What each candidate of the returned call yields when it is the only
\* candidate: its row if it is admitted, nothing otherwise.
AdmittedEach ==
    IF call.op = "find_opportunities"
    THEN [i \in 1..Len(call.args[1]) |->
             find_opportunities(analyzer, <<call.args[1][i]>>, call.args[2])]
    ELSE IF call.op = "_analyze_sportscardpro"
    THEN [i \in 1..Len(call.args[3]) |->
             _analyze_sportscardpro(analyzer, call.args[1], call.args[2],
                                    <<call.args[3][i]>>, <<call.args[4][i]>>)]
    ELSE [i \in 1..Len(call.args[2]) |-> AloneOf(call.args[2][i])]

\* C14: what find_opportunities, _analyze_sportscardpro and
\* analyze_with_scraping return is ordered by discount_pct non-increasing
\* and holds exactly the admitted candidates, none dropped, none twice.
C14_SortedAndComplete ==
    IsFO \/ IsSCP \/ IsAWS =>
        /\ DiscountDescending(call.ret)
        /\ ExactlyRowsOf(call.ret, AdmittedEach)

\* C14 witness: find_opportunities admits two listings that come in
\* ascending order of discount, and returns them the other way round.
C14_Witness ==
    /\ IsFO
    /\ Len(call.args[1]) = 2
    /\ Len(call.ret) = 2
    /\ 0 < call.args[1][2].price
    /\ call.args[1][2].price < call.args[1][1].price
    /\ RGt(call.ret[1].discount_pct, call.ret[2].discount_pct)
    /\ call.ret[1].active_price = R(call.args[1][2].price)

\* C15: each row of find_opportunities has, for the market value mv and the
\* listing's price, discount_pct = (mv - price) / mv * 100,
\* potential_profit = mv - price and profit_margin = potential_profit /
\* price * 100; with the five sold prices 90..110 without timestamps,
\* min_sold_samples 5 and threshold 20 the market value is 100, every
\* listing priced 75 is returned with discount_pct 25 and no listing priced
\* 90 is returned.
C15_RowArithmetic ==
    IsFO =>
        /\ \A row \in Rows(call.ret) :
               LET mv == row.market_value
                   price == row.active_price.n
                   profit_n == mv.n - price * mv.d
               IN  /\ row.active_price.d = 1
                   /\ mv = Get(calculate_market_value(analyzer, call.args[2])).market_value
                   /\ row.discount_pct = Rat(profit_n * 100, mv.n)
                   /\ row.potential_profit = Rat(profit_n, mv.d)
                   /\ row.profit_margin = Rat(profit_n * 100, mv.d * price)
        /\ (call.args[2] = SampleSold /\ analyzer.min_sold_samples = 5 /\ Threshold = 20) =>
               /\ \A row \in Rows(call.ret) :
                      /\ row.market_value = R(100)
                      /\ row.active_price = R(75)
                      /\ row.discount_pct = R(25)
               /\ Len(call.ret)
                      = Cardinality({i \in 1..Len(call.args[1]) : call.args[1][i].price = 75})

\* C15 witness: the five sold prices, a listing priced 75 and one priced
\* 90, and only the first is returned.
C15_Witness ==
    /\ IsFO
    /\ call.args[2] = SampleSold
    /\ analyzer.min_sold_samples = 5
    /\ Len(call.args[1]) = 2
    /\ call.args[1][1].price = 75
    /\ call.args[1][2].price = 90
    /\ Len(call.ret) = 1
    /\ call.ret[1].discount_pct = R(25)

\* The sold records for which calculate_market_value returns None: fewer
\* than min_sold_samples of them (none at all included), or no price > 0.
InsufficientData(sold_listings) ==
    \/ Len(sold_listings) < analyzer.min_sold_samples
    \/ \A i \in 1..Len(sold_listings) : sold_listings[i].price <= 0

\* C16: when the sold records are insufficient for an estimate,
\* find_opportunities returns the empty result and does not raise, whatever
\* the active listings.
C16_InsufficientDataIsEmpty ==
    IsFO /\ InsufficientData(call.args[2]) =>
        /\ calculate_market_value(analyzer, call.args[2]) = None
        /\ call.ret = <<>>
        /\ ~call.raised

\* C16 witness: three sold records of price 100 with min_sold_samples 5
\* and an active listing priced 75, and the result is empty.
C16_Witness ==
    /\ IsFO
    /\ analyzer.min_sold_samples = 5
    /\ Len(call.args[2]) = 3
    /\ \A i \in 1..3 : call.args[2][i].price = 100
    /\ \E i \in 1..Len(call.args[1]) : call.args[1][i].price = 75
    /\ call.ret = <<>>

\* C17: every key of the mapping returned by analyze_by_keyword is one of
\* the call's keywords and maps to at least one opportunity; a keyword none
\* of whose analyses found an opportunity is not a key.
C17_NoEmptyEntries ==
    IsABK =>
        /\ \A k \in 1..Len(call.ret) :
               /\ \E i \in 1..Len(call.args[1]) : call.args[1][i] = call.ret[k][1]
               /\ Len(call.ret[k][2]) >= 1
        /\ \A i \in 1..Len(call.args[1]) :
               Successes(call.args[1][i]) = {} =>
                   \A k \in 1..Len(call.ret) : call.ret[k][1] # call.args[1][i]

\* C17 witness: of two different keywords the first is analyzed without
\* raising and finds nothing, the second finds an opportunity, and only the
\* second is a key.
C17_Witness ==
    /\ IsABK
    /\ Len(call.args[1]) = 2
    /\ call.args[1][1] # call.args[1][2]
    /\ ~call.args[3][1].raised
    /\ Successes(call.args[1][1]) = {}
    /\ DictKeys(call.ret) = {call.args[1][2]}

\* The positions <<k, i>> of the rows held by the session's results: row i
\* of the k-th search term.
SessionRows ==
    UNION {{<<k, i>> : i \in 1..Len(session.opportunities[k][2])} :
              k \in 1..Len(session.opportunities)}

ProfitAt(p) == session.opportunities[p[1]][2][p[2]].potential_profit
DiscountAt(p) == session.opportunities[p[1]][2][p[2]].discount_pct

\* The exact sum of the rationals f(p), p in S.
RECURSIVE RSumOver(_, _, _)
RSumOver(S, f, acc) ==
    IF S = {} THEN acc
    ELSE LET p == CHOOSE x \in S : TRUE
         IN  RSumOver(S \ {p}, f, RAdd(acc, f[p]))

\* C18: the summary shown after a search is taken over the rows of all the
\* search terms of the session together: total_deals is their number,
\* total_potential_profit the sum of their potential_profit,
\* avg_potential_profit that sum over the number, avg_discount the mean of
\* their discount_pct, max_discount and max_profit the largest of each; no
\* summary is shown exactly when there is no row.
C18_SummaryOverAllTerms ==
    IsSearch =>
        /\ call.ret = None <=> SessionRows = {}
        /\ call.ret # None =>
               LET stats == Get(call.ret)
                   count == Cardinality(SessionRows)
                   profits == RSumOver(SessionRows, [p \in SessionRows |-> ProfitAt(p)], R(0))
                   discounts == RSumOver(SessionRows, [p \in SessionRows |-> DiscountAt(p)], R(0))
               IN  /\ stats.total_deals = count
                   /\ stats.total_potential_profit = profits
                   /\ RMul(stats.avg_potential_profit, R(count)) = profits
                   /\ RMul(stats.avg_discount, R(count)) = discounts
                   /\ \E p \in SessionRows : DiscountAt(p) = stats.max_discount
                   /\ \A p \in SessionRows : RLe(DiscountAt(p), stats.max_discount)
                   /\ \E p \in SessionRows : ProfitAt(p) = stats.max_profit
                   /\ \A p \in SessionRows : RLe(ProfitAt(p), stats.max_profit)

\* C18 witness: a search for A and B finds potential profits of 10 and 20
\* for A and nothing for B; the summary counts 2 deals with a total of 30
\* and an average of 15, and B is not a key of the results.
C18_Witness ==
    /\ IsSearch
    /\ FormKeywords(call.args[1]) = << <<"A">>, <<"B">> >>
    /\ DictKeys(session.opportunities) = {<<"A">>}
    /\ {ProfitAt(p) : p \in SessionRows} = {R(10), R(20)}
    /\ call.ret # None
    /\ Get(call.ret).total_deals = 2
    /\ Get(call.ret).total_potential_profit = R(30)
    /\ Get(call.ret).avg_potential_profit = R(15)

IsGSS == pc = "returned" /\ call.op = "get_summary_stats"

\* C19: get_summary_stats of an empty set of opportunities returns zero for
\* every statistic and does not raise.
C19_EmptySummaryIsZero ==
    IsGSS /\ Len(call.args[1]) = 0 =>
        /\ ~call.raised
        /\ call.ret.total_deals = 0
        /\ \A stat \in {call.ret.avg_discount, call.ret.total_potential_profit,
                        call.ret.avg_potential_profit, call.ret.max_discount,
                        call.ret.max_profit} : stat = R(0)

\* C19 witness: get_summary_stats has returned for the empty DataFrame.
C19_Witness ==
    /\ IsGSS
    /\ call.args[1] = <<>>
    /\ call.ret.total_deals = 0
    /\ call.ret.avg_discount = R(0)

IsSSL == pc = "returned" /\ call.op = "search_sold_listings"

\* An item whose endTime does not parse, or parses to an aware datetime
\* (the clock of the client and of the analyzer is naive).
Malformed(item) ==
    /\ item.endTime # None
    /\ ~Get(item.endTime).valid \/ Get(item.endTime).aware

\* The items with the endTime of every malformed one taken away.
AsNoTimestamp(items) ==
    [i \in 1..Len(items) |->
        IF Malformed(items[i]) THEN [items[i] EXCEPT !.endTime = None] ELSE items[i]]

\* C20 (as claimed): sold items with a malformed timestamp are estimated as
\* if they had no timestamp: they are records without end_time, so they
\* are left out of the weighted average and their prices count in the
\* statistics.
C20_MalformedIsNoTimestamp ==
    IsSSL =>
        calculate_market_value(analyzer, call.ret)
            = calculate_market_value(analyzer,
                  search_sold_listings(AsNoTimestamp(call.args[1]), call.args[2],
                                       call.args[3]))

\* C21: an active listing with a price <= 0 yields no row of
\* find_opportunities, and the result is the one of the active listings
\* without it: same rows, same values, same order.
C21_InvalidListingIsSkipped ==
    IsFO =>
        \A i \in 1..Len(call.args[1]) :
            call.args[1][i].price <= 0 =>
                /\ \A row \in Rows(call.ret) : row.active_price # R(call.args[1][i].price)
                /\ call.ret = find_opportunities(analyzer, Remove(call.args[1], i),
                                                 call.args[2])

\* C21 witness: a listing priced -10 comes before a listing priced 75, and
\* the result is the row of the second.
C21_Witness ==
    /\ IsFO
    /\ Len(call.args[1]) = 2
    /\ call.args[1][1].price = -10
    /\ call.args[1][2].price = 75
    /\ Len(call.ret) = 1
    /\ call.ret[1].active_price = R(75)

\* The sold records seen delta ticks later: every end_time is delta ticks
\* older, nothing else changes.
SeenLater(sold_listings, delta) ==
    [i \in 1..Len(sold_listings) |->
        IF sold_listings[i].end_time = None THEN sold_listings[i]
        ELSE [sold_listings[i] EXCEPT
                 !.end_time = Some([Get(@) EXCEPT !.age = @ + delta])]]

\* The time can advance by delta ticks with every end_time still within the
\* ages of the model.
CanAdvance(sold_listings, delta) ==
    \A i \in 1..Len(sold_listings) :
        sold_listings[i].end_time # None =>
            Get(sold_listings[i].end_time).age + delta <= MaxAgeTicks

\* C22: the same sold records estimated at a later time give the same
\* average, median, std_dev, min, max and sample_size (and an estimate
\* exactly when there was one).
C22_TimeChangesOnlyWeighted ==
    IsMV =>
        \A delta \in 1..MaxAgeTicks :
            CanAdvance(call.args[1], delta) =>
                LET later == calculate_market_value(analyzer, SeenLater(call.args[1], delta))
                IN  /\ (later = None) <=> (call.ret = None)
                    /\ call.ret # None =>
                           /\ Get(later).average = Get(call.ret).average
                           /\ Get(later).median = Get(call.ret).median
                           /\ Get(later).std_dev_sq = Get(call.ret).std_dev_sq
                           /\ Get(later).min = Get(call.ret).min
                           /\ Get(later).max = Get(call.ret).max
                           /\ Get(later).sample_size = Get(call.ret).sample_size

\* C22 witness: an estimate whose weighted average is another one a tick
\* (half a day) later, when one of two records has become a day older in
\* whole days and the other has not.
C22_Witness ==
    /\ IsMV
    /\ call.ret # None
    /\ CanAdvance(call.args[1], 1)
    /\ Get(call.ret).weighted_average # None
    /\ Get(calculate_market_value(analyzer, SeenLater(call.args[1], 1))).weighted_average
           # Get(call.ret).weighted_average

C24_CardValueAgainstTotalCost ==
    IsAWS =>
        \A opp \in Rows(call.ret) :
            LET value == opp.market_data.market_value
                cost == opp.listing.price + opp.listing.shipping_cost
            IN  /\ opp.market_value = R(value)
                /\ opp.listing_price = R(cost)
                /\ opp.discount_pct = Rat((value - cost) * 100, value)
                /\ opp.potential_profit = R(value - cost)

\* C24 witness: an opportunity whose listing has a shipping cost.
C24_Witness ==
    /\ IsAWS
    /\ \E opp \in Rows(call.ret) :
           /\ opp.listing.shipping_cost > 0
           /\ opp.listing_price = R(opp.listing.price + opp.listing.shipping_cost)
           /\ opp.market_value = R(200)

\* The sold records are n copies of the record priced float(cents / 100).
UniformQuotes(cents) ==
    /\ Len(call.args[1]) >= 1
    /\ Len(call.args[1]) >= analyzer.min_sold_samples
    /\ \A i \in 1..Len(call.args[1]) :
           call.args[1][i] = [price |-> DFromCents(cents), end_time |-> None]

\* |a - b| <= b * 2^(-bits), for positive doubles
DWithin(a, b, bits) ==
    LET e  == IF a.e <= b.e THEN a.e ELSE b.e
        am == BNShl(a.m, a.e - e)
        bm == BNShl(b.m, b.e - e)
        lo == IF BNLess(am, bm) THEN am ELSE bm
        hi == IF BNLess(am, bm) THEN bm ELSE am
    IN  ~BNLess(BNAdd(BNShl(lo, bits), bm), BNShl(hi, bits))

InMinuteBefore(i) ==
    {j \in 1..Len(wrapper.requests) :
        /\ wrapper.requests[j] <= wrapper.requests[i]
        /\ wrapper.requests[j] > wrapper.requests[i] - SecondsPerMinute}

\* C26: in any window of one minute the SportsCardProClient sends at most
\* rate_limit_per_min requests, retried requests included.
C26_RateLimitEnforced ==
    \A i \in 1..Len(wrapper.requests) :
        Cardinality(InMinuteBefore(i)) <= wrapper.rate_limit_per_min

\* The parsed record is no older than days_back days, whatever the time
\* zone its end_time carries.
WithinDaysBack(listing, days_back) ==
    listing.end_time # None => Get(listing.end_time).age <= days_back * TicksPerDay

\* C27: when the request succeeds, search_sold_listings returns, in the
\* order of the reply, exactly the parsed items that have no end_time or an
\* end_time not before now - days_back; items sold before the cutoff are
\* left out and no item is lost to the comparison of its end_time with the
\* cutoff.
C27_LastDaysBackReturned ==
    (IsSSL /\ ~call.args[3]) =>
        LET listings == [i \in 1..Len(call.args[1]) |-> _parse_listing(call.args[1][i])]
        IN  call.ret = SelectIdx(listings,
                                 {i \in 1..Len(listings) :
                                     WithinDaysBack(listings[i], call.args[2])},
                                 1)

IsWrapped == pc = "wrapped"

\* C28: a function wrapped by retry_on_failure(max_retries = n, delay) is
\* invoked at most n times, one invocation at a time; the wrapper returns
\* with the first invocation that succeeds, and when all n invocations
\* raise, the exception of the n-th propagates; the wrapper sleeps
\* delay * k after the k-th failure except the last, so invocation k + 1
\* starts at least delay * k after invocation k.
C28_RetryProtocol ==
    /\ Len(wrapper.invoked) <= wrapper.max_retries
    /\ wrapper.in_flight <= 1
    /\ Len(wrapper.outcomes) = Len(wrapper.invoked) - wrapper.in_flight
    /\ \A k \in 1..Len(wrapper.outcomes) :
           wrapper.outcomes[k] =>
               /\ k = Len(wrapper.invoked)
               /\ pc \notin {"attempt", "in_request", "sleeping"}
    /\ \A k \in 1..Len(wrapper.slept) : wrapper.slept[k] = wrapper.delay * k
    /\ \A k \in 1..(Len(wrapper.invoked) - 1) :
           wrapper.invoked[k + 1] >= wrapper.invoked[k] + wrapper.delay * k
    /\ IsWrapped =>
           /\ wrapper.in_flight = 0
           /\ wrapper.result \in {"returned", "raised"}
           /\ wrapper.by_attempt = Len(wrapper.invoked)
           /\ Len(wrapper.slept) = Len(wrapper.invoked) - 1
           /\ wrapper.result = "returned" <=> wrapper.outcomes[Len(wrapper.outcomes)]
           /\ wrapper.result = "raised" =>
                  /\ Len(wrapper.invoked) = wrapper.max_retries
                  /\ \A k \in 1..wrapper.max_retries : ~wrapper.outcomes[k]

\* C28 witness: three invocations have raised and the wrapper has raised,
\* after sleeps of delay and 2 * delay.
C28_Witness ==
    /\ IsWrapped
    /\ wrapper.max_retries = 3
    /\ wrapper.result = "raised"
    /\ wrapper.outcomes = <<FALSE, FALSE, FALSE>>
    /\ wrapper.slept = <<wrapper.delay, 2 * wrapper.delay>>

\* Card i is the first of the cards with the highest score for the listing,
\* and that score is above 0.
FirstOfTheBest(listing, cards, i) ==
    /\ MatchScoreOf(listing, cards[i]) > 0
    /\ \A j \in 1..Len(cards) :
           MatchScoreOf(listing, cards[j]) <= MatchScoreOf(listing, cards[i])
    /\ \A j \in 1..(i - 1) :
           MatchScoreOf(listing, cards[j]) < MatchScoreOf(listing, cards[i])

\* C29: the market data of every opportunity of analyze_with_scraping is the
\* first card of the catalogue list among those with the highest match
\* score for the listing, the match_score reported is that score, and it is
\* never 0.
C29_FirstBestCardWins ==
    IsAWS =>
        \A opp \in Rows(call.ret) :
            /\ opp.match_score > 0
            /\ opp.match_score = MaxScore(opp.listing, call.args[1])
            /\ \A i \in 1..Len(call.args[1]) :
                   FirstOfTheBest(opp.listing, call.args[1], i)
                       => opp.market_data = call.args[1][i]

\* C29 witness: two different cards tie for the highest score of a listing
\* that became an opportunity, and the earlier one is its market data.
C29_Witness ==
    /\ IsAWS
    /\ \E opp \in Rows(call.ret) :
           \E i, j \in 1..Len(call.args[1]) :
               /\ i < j
               /\ FirstOfTheBest(opp.listing, call.args[1], i)
               /\ MatchScoreOf(opp.listing, call.args[1][j])
                      = MatchScoreOf(opp.listing, call.args[1][i])
               /\ call.args[1][j] # call.args[1][i]
               /\ opp.market_data = call.args[1][i]

\* A step of the search logic, from the press of the button to the end of
\* the script.
SearchStep == pc = "idle" /\ pc' = "returned" /\ call'.op = "search"

\* what the try block of that step computed
AnalysisOfStep == RunAnalysis(analyzer, call'.args[1], call'.args[2])

\* The number of opportunities of all the keywords of a result.
TotalOpportunities(results) ==
    Cardinality({<<k, n>> \in (1..Len(results)) \X (1..MaxDeals * MaxKeywords) :
                    n <= Len(results[k][2])})

\* C30: a search that raises leaves opportunities, last_search and
\* search_history as they were; a search that completes replaces
\* opportunities by its own results (nothing of the earlier results is
\* kept), sets last_search to the time of the search, and adds one entry to
\* search_history exactly when its results are not empty, with deals_found
\* the number of opportunities over all its keywords.
C30_SessionStateOfSearch ==
    [][SearchStep =>
          LET keywords == FormKeywords(call'.args[1])
          IN  IF keywords = <<>> THEN session' = session
              ELSE IF call'.raised THEN session' = session
              ELSE /\ session'.opportunities = AnalysisOfStep.results
                   /\ DictKeys(session'.opportunities) \subseteq Rows(keywords)
                   /\ session'.last_search = now
                   /\ IF AnalysisOfStep.results = <<>>
                      THEN session'.search_history = session.search_history
                      ELSE /\ Len(session'.search_history) = Len(session.search_history) + 1
                           /\ SubSeq(session'.search_history, 1, Len(session.search_history))
                                  = session.search_history
                           /\ LET entry == session'.search_history[Len(session'.search_history)]
                              IN  /\ entry.timestamp = now
                                  /\ entry.keywords = keywords
                                  /\ entry.deals_found
                                         = TotalOpportunities(AnalysisOfStep.results)]_vars

\* C30 witness: a second search has completed with results, and a keyword
\* of the first search, which had results too, is no longer among the
\* opportunities.
C30_Witness ==
    /\ pc = "returned"
    /\ call.op = "search"
    /\ ~call.raised
    /\ Len(session.search_history) = 2
    /\ session.last_search = 2
    /\ session.opportunities # <<>>
    /\ \E keyword \in Rows(session.search_history[1].keywords) :
           keyword \notin DictKeys(session.opportunities)

\* C30 witness of the failing search: the second search raised and the
\* session still holds the results and the time of the first.
C30_FailedSearchWitness ==
    /\ pc = "returned"
    /\ call.op = "search"
    /\ call.raised
    /\ call.args[3] = 2
    /\ session.last_search = 1
    /\ session.opportunities # <<>>
    /\ Len(session.search_history) = 1

====
